---- MODULE Spec2Model ----
(***************************************************************************)
(* A model of the expo-healthkit access layer: ExpoHealthKitManager.swift  *)
(* (the manager), ExpoHealthKitModule.swift (the bridge functions) and the *)
(* health store the manager calls.  Strings that the code inspects         *)
(* (identifiers, activity types, workout ids) are sequences of one-        *)
(* character strings, so that lowercased() and UUID(uuidString:) are       *)
(* computed character by character.                                        *)
(***************************************************************************)
EXTENDS Integers, Sequences, FiniteSets, TLC

VARIABLES
  available,   \* HKHealthStore.isHealthDataAvailable()
  workouts,    \* the store's workout samples (HKWorkout)
  samples,     \* the store's quantity samples (HKQuantitySample)
  calls,       \* the public operations issued so far, with their outcome
  nextUuid,    \* the number of objects created so far (each gets a fresh UUID)
  crashed,     \* the process was aborted by a runtime trap
  osVersion16, \* `#available(iOS 16.0, *)`
  sleepSamples, \* the store's sleep-analysis category samples
  probe        \* input and output of a pure helper under test

vars == <<available, workouts, samples, calls, nextUuid, crashed, osVersion16,
          sleepSamples, probe>>

\* Swift nil for a missing handle or optional string.
Nil == "nil"

(***************************************************************************)
(* Strings                                                                 *)
(***************************************************************************)
UpperLetters ==
  <<"A","B","C","D","E","F","G","H","I","J","K","L","M",
    "N","O","P","Q","R","S","T","U","V","W","X","Y","Z">>

LowerLetters ==
  <<"a","b","c","d","e","f","g","h","i","j","k","l","m",
    "n","o","p","q","r","s","t","u","v","w","x","y","z">>

lowerChar(c) ==
  IF \E i \in 1..Len(UpperLetters) : UpperLetters[i] = c
  THEN LowerLetters[CHOOSE i \in 1..Len(UpperLetters) : UpperLetters[i] = c]
  ELSE c

upperChar(c) ==
  IF \E i \in 1..Len(LowerLetters) : LowerLetters[i] = c
  THEN UpperLetters[CHOOSE i \in 1..Len(LowerLetters) : LowerLetters[i] = c]
  ELSE c

\* A lowercased() that leaves its argument alone.
lowercasedVerbatim(s) == s

\* String.lowercased()
lowercased(s) == [i \in 1..Len(s) |-> lowerChar(s[i])]

\* String.uppercased()
uppercased(s) == [i \in 1..Len(s) |-> upperChar(s[i])]

(***************************************************************************)
(* Type registry                                                           *)
(***************************************************************************)
\* parseDataType: identifier -> native type handle, Nil when unknown.
parseDataType(type) ==
  LET t == lowercased(type) IN
  CASE t \in {<<"w","o","r","k","o","u","t">>}
         -> "workoutType"   \* workout
    [] t \in {<<"s","t","e","p","s">>,
            <<"s","t","e","p","c","o","u","n","t">>}
         -> "stepCount"   \* steps, stepcount
    [] t \in {<<"d","i","s","t","a","n","c","e">>,
            <<"d","i","s","t","a","n","c","e","w","a","l","k","i","n","g","r","u","n","n","i","n","g">>}
         -> "distanceWalkingRunning"   \* distance, distancewalkingrunning
    [] t \in {<<"d","i","s","t","a","n","c","e","c","y","c","l","i","n","g">>}
         -> "distanceCycling"   \* distancecycling
    [] t \in {<<"d","i","s","t","a","n","c","e","s","w","i","m","m","i","n","g">>}
         -> "distanceSwimming"   \* distanceswimming
    [] t \in {<<"f","l","i","g","h","t","s","c","l","i","m","b","e","d">>}
         -> "flightsClimbed"   \* flightsclimbed
    [] t \in {<<"a","c","t","i","v","e","e","n","e","r","g","y">>,
            <<"c","a","l","o","r","i","e","s">>,
            <<"a","c","t","i","v","e","e","n","e","r","g","y","b","u","r","n","e","d">>}
         -> "activeEnergyBurned"   \* activeenergy, calories, activeenergyburned
    [] t \in {<<"b","a","s","a","l","e","n","e","r","g","y">>,
            <<"b","a","s","a","l","e","n","e","r","g","y","b","u","r","n","e","d">>}
         -> "basalEnergyBurned"   \* basalenergy, basalenergyburned
    [] t \in {<<"h","e","i","g","h","t">>,
            <<"b","o","d","y","h","e","i","g","h","t">>}
         -> "height"   \* height, bodyheight
    [] t \in {<<"w","e","i","g","h","t">>,
            <<"b","o","d","y","m","a","s","s">>,
            <<"b","o","d","y","w","e","i","g","h","t">>}
         -> "bodyMass"   \* weight, bodymass, bodyweight
    [] t \in {<<"b","o","d","y","m","a","s","s","i","n","d","e","x">>,
            <<"b","m","i">>}
         -> "bodyMassIndex"   \* bodymassindex, bmi
    [] t \in {<<"b","o","d","y","f","a","t">>,
            <<"b","o","d","y","f","a","t","p","e","r","c","e","n","t","a","g","e">>}
         -> "bodyFatPercentage"   \* bodyfat, bodyfatpercentage
    [] t \in {<<"l","e","a","n","m","a","s","s">>,
            <<"l","e","a","n","b","o","d","y","m","a","s","s">>}
         -> "leanBodyMass"   \* leanmass, leanbodymass
    [] t \in {<<"h","e","a","r","t","r","a","t","e">>}
         -> "heartRate"   \* heartrate
    [] t \in {<<"r","e","s","t","i","n","g","h","e","a","r","t","r","a","t","e">>}
         -> "restingHeartRate"   \* restingheartrate
    [] t \in {<<"h","e","a","r","t","r","a","t","e","v","a","r","i","a","b","i","l","i","t","y">>,
            <<"h","r","v">>}
         -> "heartRateVariabilitySDNN"   \* heartratevariability, hrv
    [] t \in {<<"b","l","o","o","d","p","r","e","s","s","u","r","e","s","y","s","t","o","l","i","c">>}
         -> "bloodPressureSystolic"   \* bloodpressuresystolic
    [] t \in {<<"b","l","o","o","d","p","r","e","s","s","u","r","e","d","i","a","s","t","o","l","i","c">>}
         -> "bloodPressureDiastolic"   \* bloodpressurediastolic
    [] t \in {<<"r","e","s","p","i","r","a","t","o","r","y","r","a","t","e">>}
         -> "respiratoryRate"   \* respiratoryrate
    [] t \in {<<"o","x","y","g","e","n","s","a","t">>,
            <<"o","x","y","g","e","n","s","a","t","u","r","a","t","i","o","n">>,
            <<"s","p","o","2">>}
         -> "oxygenSaturation"   \* oxygensat, oxygensaturation, spo2
    [] t \in {<<"b","o","d","y","t","e","m","p","e","r","a","t","u","r","e">>}
         -> "bodyTemperature"   \* bodytemperature
    [] t \in {<<"d","i","e","t","a","r","y","e","n","e","r","g","y">>,
            <<"d","i","e","t","a","r","y","c","a","l","o","r","i","e","s">>}
         -> "dietaryEnergyConsumed"   \* dietaryenergy, dietarycalories
    [] t \in {<<"p","r","o","t","e","i","n">>,
            <<"d","i","e","t","a","r","y","p","r","o","t","e","i","n">>}
         -> "dietaryProtein"   \* protein, dietaryprotein
    [] t \in {<<"c","a","r","b","s">>,
            <<"c","a","r","b","o","h","y","d","r","a","t","e","s">>,
            <<"d","i","e","t","a","r","y","c","a","r","b","o","h","y","d","r","a","t","e","s">>}
         -> "dietaryCarbohydrates"   \* carbs, carbohydrates, dietarycarbohydrates
    [] t \in {<<"f","a","t">>,
            <<"d","i","e","t","a","r","y","f","a","t">>,
            <<"d","i","e","t","a","r","y","f","a","t","t","o","t","a","l">>}
         -> "dietaryFatTotal"   \* fat, dietaryfat, dietaryfattotal
    [] t \in {<<"f","i","b","e","r">>,
            <<"d","i","e","t","a","r","y","f","i","b","e","r">>}
         -> "dietaryFiber"   \* fiber, dietaryfiber
    [] t \in {<<"w","a","t","e","r">>,
            <<"d","i","e","t","a","r","y","w","a","t","e","r">>}
         -> "dietaryWater"   \* water, dietarywater
    [] t \in {<<"c","a","f","f","e","i","n","e">>,
            <<"d","i","e","t","a","r","y","c","a","f","f","e","i","n","e">>}
         -> "dietaryCaffeine"   \* caffeine, dietarycaffeine
    [] t \in {<<"s","l","e","e","p">>,
            <<"s","l","e","e","p","a","n","a","l","y","s","i","s">>}
         -> "sleepAnalysis"   \* sleep, sleepanalysis
    [] t \in {<<"m","i","n","d","f","u","l","n","e","s","s">>,
            <<"m","i","n","d","f","u","l","m","i","n","u","t","e","s">>}
         -> "mindfulSession"   \* mindfulness, mindfulminutes
    [] OTHER -> Nil

\* A parseActivityType whose default is running.
parseActivityTypeDefaultRunning(type) ==
  LET t == lowercased(type) IN
  CASE t = <<"r","u","n","n","i","n","g">>
         -> "running"
    [] t = <<"w","a","l","k","i","n","g">>
         -> "walking"
    [] t = <<"c","y","c","l","i","n","g">>
         -> "cycling"
    [] t = <<"s","w","i","m","m","i","n","g">>
         -> "swimming"
    [] t = <<"h","i","k","i","n","g">>
         -> "hiking"
    [] t = <<"y","o","g","a">>
         -> "yoga"
    [] t = <<"f","u","n","c","t","i","o","n","a","l","s","t","r","e","n","g","t","h","t","r","a","i","n","i","n","g">>
         -> "functionalStrengthTraining"
    [] t = <<"t","r","a","d","i","t","i","o","n","a","l","s","t","r","e","n","g","t","h","t","r","a","i","n","i","n","g">>
         -> "traditionalStrengthTraining"
    [] t = <<"e","l","l","i","p","t","i","c","a","l">>
         -> "elliptical"
    [] t = <<"r","o","w","i","n","g">>
         -> "rowing"
    [] OTHER -> "running"

\* parseActivityType: activity name -> HKWorkoutActivityType.
parseActivityType(type) ==
  LET t == lowercased(type) IN
  CASE t = <<"r","u","n","n","i","n","g">>
         -> "running"
    [] t = <<"w","a","l","k","i","n","g">>
         -> "walking"
    [] t = <<"c","y","c","l","i","n","g">>
         -> "cycling"
    [] t = <<"s","w","i","m","m","i","n","g">>
         -> "swimming"
    [] t = <<"h","i","k","i","n","g">>
         -> "hiking"
    [] t = <<"y","o","g","a">>
         -> "yoga"
    [] t = <<"f","u","n","c","t","i","o","n","a","l","s","t","r","e","n","g","t","h","t","r","a","i","n","i","n","g">>
         -> "functionalStrengthTraining"
    [] t = <<"t","r","a","d","i","t","i","o","n","a","l","s","t","r","e","n","g","t","h","t","r","a","i","n","i","n","g">>
         -> "traditionalStrengthTraining"
    [] t = <<"e","l","l","i","p","t","i","c","a","l">>
         -> "elliptical"
    [] t = <<"r","o","w","i","n","g">>
         -> "rowing"
    [] OTHER -> "other"

\* formatActivityType: HKWorkoutActivityType -> activity name.
formatActivityType(type) ==
  CASE type = "running"
         -> <<"r","u","n","n","i","n","g">>
    [] type = "walking"
         -> <<"w","a","l","k","i","n","g">>
    [] type = "cycling"
         -> <<"c","y","c","l","i","n","g">>
    [] type = "swimming"
         -> <<"s","w","i","m","m","i","n","g">>
    [] type = "hiking"
         -> <<"h","i","k","i","n","g">>
    [] type = "yoga"
         -> <<"y","o","g","a">>
    [] type = "functionalStrengthTraining"
         -> <<"f","u","n","c","t","i","o","n","a","l","S","t","r","e","n","g","t","h","T","r","a","i","n","i","n","g">>
    [] type = "traditionalStrengthTraining"
         -> <<"t","r","a","d","i","t","i","o","n","a","l","S","t","r","e","n","g","t","h","T","r","a","i","n","i","n","g">>
    [] type = "elliptical"
         -> <<"e","l","l","i","p","t","i","c","a","l">>
    [] type = "rowing"
         -> <<"r","o","w","i","n","g">>
    [] OTHER -> <<"o","t","h","e","r">>

\* The public DataType list, one set of aliases per data kind.
DataTypeAliases ==
  { {<<"W","o","r","k","o","u","t">>},
    {<<"S","t","e","p","s">>, <<"S","t","e","p","C","o","u","n","t">>},
    {<<"D","i","s","t","a","n","c","e">>, <<"D","i","s","t","a","n","c","e","W","a","l","k","i","n","g","R","u","n","n","i","n","g">>},
    {<<"D","i","s","t","a","n","c","e","C","y","c","l","i","n","g">>},
    {<<"D","i","s","t","a","n","c","e","S","w","i","m","m","i","n","g">>},
    {<<"F","l","i","g","h","t","s","C","l","i","m","b","e","d">>},
    {<<"A","c","t","i","v","e","E","n","e","r","g","y">>, <<"C","a","l","o","r","i","e","s">>, <<"A","c","t","i","v","e","E","n","e","r","g","y","B","u","r","n","e","d">>},
    {<<"B","a","s","a","l","E","n","e","r","g","y">>, <<"B","a","s","a","l","E","n","e","r","g","y","B","u","r","n","e","d">>},
    {<<"H","e","i","g","h","t">>, <<"B","o","d","y","H","e","i","g","h","t">>},
    {<<"W","e","i","g","h","t">>, <<"B","o","d","y","M","a","s","s">>, <<"B","o","d","y","W","e","i","g","h","t">>},
    {<<"B","o","d","y","M","a","s","s","I","n","d","e","x">>, <<"B","M","I">>},
    {<<"B","o","d","y","F","a","t">>, <<"B","o","d","y","F","a","t","P","e","r","c","e","n","t","a","g","e">>},
    {<<"L","e","a","n","M","a","s","s">>, <<"L","e","a","n","B","o","d","y","M","a","s","s">>},
    {<<"H","e","a","r","t","R","a","t","e">>},
    {<<"R","e","s","t","i","n","g","H","e","a","r","t","R","a","t","e">>},
    {<<"H","e","a","r","t","R","a","t","e","V","a","r","i","a","b","i","l","i","t","y">>, <<"H","R","V">>},
    {<<"B","l","o","o","d","P","r","e","s","s","u","r","e","S","y","s","t","o","l","i","c">>},
    {<<"B","l","o","o","d","P","r","e","s","s","u","r","e","D","i","a","s","t","o","l","i","c">>},
    {<<"R","e","s","p","i","r","a","t","o","r","y","R","a","t","e">>},
    {<<"O","x","y","g","e","n","S","a","t">>, <<"O","x","y","g","e","n","S","a","t","u","r","a","t","i","o","n">>, <<"S","p","O","2">>},
    {<<"B","o","d","y","T","e","m","p","e","r","a","t","u","r","e">>},
    {<<"D","i","e","t","a","r","y","E","n","e","r","g","y">>, <<"D","i","e","t","a","r","y","C","a","l","o","r","i","e","s">>},
    {<<"P","r","o","t","e","i","n">>, <<"D","i","e","t","a","r","y","P","r","o","t","e","i","n">>},
    {<<"C","a","r","b","s">>, <<"C","a","r","b","o","h","y","d","r","a","t","e","s">>, <<"D","i","e","t","a","r","y","C","a","r","b","o","h","y","d","r","a","t","e","s">>},
    {<<"F","a","t">>, <<"D","i","e","t","a","r","y","F","a","t">>, <<"D","i","e","t","a","r","y","F","a","t","T","o","t","a","l">>},
    {<<"F","i","b","e","r">>, <<"D","i","e","t","a","r","y","F","i","b","e","r">>},
    {<<"W","a","t","e","r">>, <<"D","i","e","t","a","r","y","W","a","t","e","r">>},
    {<<"C","a","f","f","e","i","n","e">>, <<"D","i","e","t","a","r","y","C","a","f","f","e","i","n","e">>},
    {<<"S","l","e","e","p">>, <<"S","l","e","e","p","A","n","a","l","y","s","i","s">>},
    {<<"M","i","n","d","f","u","l","n","e","s","s">>, <<"M","i","n","d","f","u","l","M","i","n","u","t","e","s">>} }

(***************************************************************************)
(* Values crossing the bridge, errors, optionals                           *)
(***************************************************************************)
\* A value of a [String: Any] dictionary: a whole number, a string, or a
\* number given as the fraction whose nearest Double it is.
Num(n) == [t |-> "num", v |-> n]
Str(s) == [t |-> "str", v |-> s]
Real(r) == [t |-> "real", v |-> r]

RECURSIVE GCD(_, _)
GCD(a, b) == IF b = 0 THEN a ELSE GCD(b, a % b)

\* The fraction n/d in lowest terms, for d > 0.
Rat(n, d) == LET g == GCD(n, d) IN [num |-> n \div g, den |-> d \div g]

\* The whole number n as a fraction.
Whole(n) == [num |-> n, den |-> 1]

RECURSIVE CompareFractions(_, _, _, _)
\* -1, 0 or 1 as a/b is below, equal to or above c/d, for a, c >= 0 and
\* b, d > 0: by the whole parts, then by the remainders turned upside down.
CompareFractions(a, b, c, d) ==
  IF a \div b # c \div d THEN (IF a \div b < c \div d THEN -1 ELSE 1)
  ELSE IF a % b = 0 \/ c % d = 0
  THEN (IF a % b = c % d THEN 0 ELSE IF a % b = 0 THEN -1 ELSE 1)
  ELSE CompareFractions(d, c % d, b, a % b)

\* A time is a mixed number of seconds: [whole, num, den] is whole + num/den,
\* with 0 <= num < den and num/den in lowest terms.
Mixed(w, n, d) ==
  IF n = d THEN [whole |-> w + 1, num |-> 0, den |-> 1]
  ELSE LET g == GCD(n, d) IN [whole |-> w, num |-> n \div g, den |-> d \div g]

\* The time of n whole seconds, and the time a fraction of seconds tells.
AtSecond(n) == [whole |-> n, num |-> 0, den |-> 1]
Exactly(t) == Mixed(t.num \div t.den, t.num % t.den, t.den)

\* x < y for two times.
Before(x, y) ==
  \/ x.whole < y.whole
  \/ x.whole = y.whole /\ CompareFractions(x.num, x.den, y.num, y.den) < 0

\* Date.getTime() / 1000: the division of two Doubles gives the Double
\* nearest to the quotient.
secondsOf(date) == Rat(date.ms, 1000)

\* The fields the TypeScript queryWorkouts copies into its queryOptions.
QueryOptionKeys == { "startDate", "endDate", "limit" }

\* A wrapper that hands the milliseconds of a Date to the module.
tsQueryOptionsInMilliseconds(options) ==
  [k \in DOMAIN options \cap QueryOptionKeys |->
     IF k # "limit" /\ options[k].t = "date" THEN Num(options[k].ms) ELSE options[k]]

\* The queryOptions object the TypeScript queryWorkouts builds from the
\* startDate, endDate and limit of its options, and from nothing else: a Date
\* bound becomes epoch seconds, anything else is passed on; a field that is
\* undefined is absent here.
tsQueryOptions(options) ==
  [k \in DOMAIN options \cap QueryOptionKeys |->
     IF k # "limit" /\ options[k].t = "date" THEN Real(secondsOf(options[k]))
     ELSE options[k]]

\* `data[key] as? Double`: the key is present and holds a number, whole or
\* not; the number as a fraction.
asDouble(data, key) ==
  IF key \notin DOMAIN data THEN <<>>
  ELSE IF data[key].t = "real" THEN <<data[key].v>>
  ELSE IF data[key].t = "num" THEN <<Whole(data[key].v)>>
  ELSE <<>>

\* `data[key] as? String`
asString(data, key) ==
  IF key \in DOMAIN data /\ data[key].t = "str" THEN <<data[key].v>> ELSE <<>>

\* HealthKitError, lines 4-11; "none" stands for no error.
Err(kind, detail) == [kind |-> kind, detail |-> detail]
NoError == Err("none", "")

\* The description of the error the store reports.
StoreErrorText == "store error"

(***************************************************************************)
(* UUIDs                                                                   *)
(***************************************************************************)
HexDigits ==
  <<"0","1","2","3","4","5","6","7","8","9","A","B","C","D","E","F">>

\* UUID.uuidString of the n-th object created: 8-4-4-4-12 upper-case hex.
uuidString(n) ==
  [i \in 1..36 |-> IF i \in {9, 14, 19, 24} THEN "-"
                   ELSE IF i = 36 THEN HexDigits[(n % 16) + 1]
                   ELSE "0"]

\* UUID(uuidString:): <<uuid>> for a well-formed string, <<>> (nil) otherwise.
\* The UUID is kept in its canonical (upper-case) string form.
UUIDFromString(s) ==
  IF /\ Len(s) = 36
     /\ \A i \in 1..36 :
          IF i \in {9, 14, 19, 24} THEN s[i] = "-"
          ELSE \E d \in 1..16 : HexDigits[d] = upperChar(s[i])
  THEN <<uppercased(s)>>
  ELSE <<>>

(***************************************************************************)
(* Quantities                                                              *)
(***************************************************************************)
Zero == Rat(0, 1)
\* The exact sum of two fractions.
RatAdd(x, y) == Rat(x.num * y.den + y.num * x.den, x.den * y.den)

\* A Double is IEEE 754 binary64: [mant |-> its significand of SignificandBits
\* bits, exp |-> the power of two its lowest bit counts]. A significand, like
\* every long number here, is a string of limbs of LimbBits bits, the highest
\* first; the first of the SignificandLimbs limbs of a significand is in
\* LeastTop..(2 * LeastTop - 1). Only positive normal numbers occur.
SignificandBits == 53
\* The width of a limb: the arithmetic is the same for every width whose
\* products stay inside the model checker's integers.
LimbBits == 12
Limb == 2^LimbBits
SignificandLimbs == (SignificandBits + LimbBits - 1) \div LimbBits
\* The first limb of the least significand, 2^(SignificandBits - 1).
LeastTop == 2^((SignificandBits - 1) % LimbBits)
\* From this many Doubles on, two Doubles count as far apart.
Far == 2^(30 - LimbBits)

\* A Date holds the seconds since 2001 as a Double; 2001 began this many
\* seconds after 1970.
timeIntervalBetween1970AndReferenceDate == 978307200

RECURSIVE BinaryDigits(_)
\* The number of binary digits of a natural number.
BinaryDigits(n) == IF n = 0 THEN 0 ELSE 1 + BinaryDigits(n \div 2)

RECURSIVE ZerosAfterPoint(_, _)
\* The zeros between the binary point and the first 1 of f / d, for
\* 0 < f < d < 2^30.
ZerosAfterPoint(f, d) == IF 2 * f >= d THEN 0 ELSE 1 + ZerosAfterPoint(2 * f, d)

\* The binary places the Double nearest to the fraction t > 0 keeps: its
\* SignificandBits bits begin at the first 1 of t.
PlacesKept(t) ==
  IF t.num >= t.den THEN SignificandBits - BinaryDigits(t.num \div t.den)
  ELSE SignificandBits + ZerosAfterPoint(t.num, t.den)

\* The binary places of a Date of the first years after 1970, which holds a
\* Double of the size of timeIntervalBetween1970AndReferenceDate.
DatePlaces == PlacesKept(Whole(timeIntervalBetween1970AndReferenceDate))

RECURSIVE BinaryPlaces(_, _, _)
\* f / d to n binary places, for 0 <= f < d < 2^30: the places as a whole
\* number, and what remains of f.
BinaryPlaces(f, d, n) ==
  IF n = 0 THEN [quotient |-> 0, remainder |-> f]
  ELSE IF n = 1 THEN [quotient |-> (2 * f) \div d, remainder |-> (2 * f) % d]
  ELSE LET first == BinaryPlaces(f, d, n \div 2)
           rest == BinaryPlaces(first.remainder, d, n - n \div 2)
       IN [quotient |-> first.quotient * 2^(n - n \div 2) + rest.quotient,
           remainder |-> rest.remainder]

\* f / d rounded to n >= 1 binary places, a tie to the even place, as a whole
\* number of steps of 2^-n.
RoundedPlaces(f, d, n) ==
  LET places == BinaryPlaces(f, d, n)
  IN IF \/ 2 * places.remainder > d
        \/ 2 * places.remainder = d /\ places.quotient % 2 = 1
     THEN places.quotient + 1 ELSE places.quotient

\* The Double of the fraction t, which keeps `kept` binary places, rounded to
\* the p < kept places of another Double, a tie to the even place. What t
\* has beyond the p places is rounded as the Double of t rounds it and then
\* held against half a step. Of the places a Double keeps beyond p only 30
\* count: a fraction whose denominator is below 2^30 and which is not half a
\* step there is not half a step further on.
RoundedAgain(t, kept, p) ==
  LET first == BinaryPlaces(t.num % t.den, t.den, p)
      more == IF kept - p > 30 THEN 30 ELSE kept - p
      beyond == RoundedPlaces(first.remainder, t.den, more)
      half == 2^(more - 1)
      up == beyond > half \/ (beyond = half /\ first.quotient % 2 = 1)
  IN Mixed(t.num \div t.den, IF up THEN first.quotient + 1 ELSE first.quotient, 2^p)

\* Date(timeIntervalSince1970: t), written as the timeIntervalSince1970 the
\* Date reads back, for the Double nearest to the fraction t >= 0 with
\* t.num < 2^31 and t.den < 2^30. The Date holds
\* t - timeIntervalBetween1970AndReferenceDate rounded to a Double. That
\* difference, whose whole part is `apart`, is a whole number when t is one
\* and is held as it is; otherwise the Double keeps the binary places that
\* the size of the difference leaves it, which are fewer than the Double of t
\* has when t is nearer to 1970 than to 2001. Adding
\* timeIntervalBetween1970AndReferenceDate again is exact.
DateSince1970(t) ==
  LET whole == t.num \div t.den
      apart == IF whole >= timeIntervalBetween1970AndReferenceDate
               THEN whole - timeIntervalBetween1970AndReferenceDate
               ELSE timeIntervalBetween1970AndReferenceDate - whole - 1
  IN IF t.num % t.den = 0 THEN AtSecond(whole)
     ELSE IF apart = 0 \/ PlacesKept(Whole(apart)) >= PlacesKept(t)
     THEN Mixed(whole, RoundedPlaces(t.num % t.den, t.den, PlacesKept(t)),
                2^PlacesKept(t))
     ELSE RoundedAgain(t, PlacesKept(t), PlacesKept(Whole(apart)))

RECURSIVE Limbs(_)
\* The limbs of a natural number.
Limbs(n) == IF n = 0 THEN <<>> ELSE Append(Limbs(n \div Limb), n % Limb)

Zeros(n) == [i \in 1..n |-> 0]
Reversed(s) == [i \in 1..Len(s) |-> s[Len(s) + 1 - i]]
\* The number of binary digits of a limb.
BitLength(n) == CHOOSE b \in 0..LimbBits : n < 2^b /\ (b = 0 \/ 2^(b-1) <= n)

RECURSIVE LongDivision(_, _, _, _, _)
\* Long division of limbs[lo..hi] by d < 2^(31 - LimbBits), given the
\* remainder of the limbs before them: the quotient limbs and the remainder.
LongDivision(limbs, d, lo, hi, rem) ==
  IF lo = hi
  THEN [quotient |-> <<(Limb * rem + limbs[lo]) \div d>>,
        remainder |-> (Limb * rem + limbs[lo]) % d]
  ELSE LET mid == (lo + hi) \div 2
           left == LongDivision(limbs, d, lo, mid, rem)
           right == LongDivision(limbs, d, mid + 1, hi, left.remainder)
       IN [quotient |-> left.quotient \o right.quotient, remainder |-> right.remainder]

RECURSIVE Carrying(_, _, _, _, _, _)
\* x[lo..hi] * k + y[lo..hi] + carry for two strings of limbs and a natural
\* number k < 2^(31 - LimbBits): its low hi-lo+1 limbs, the lowest first, and
\* the carry out of them.
Carrying(x, k, y, lo, hi, carry) ==
  IF lo = hi
  THEN [low |-> <<(x[lo] * k + y[lo] + carry) % Limb>>,
        carry |-> (x[lo] * k + y[lo] + carry) \div Limb]
  ELSE LET mid == (lo + hi) \div 2
           right == Carrying(x, k, y, mid + 1, hi, carry)
           left == Carrying(x, k, y, lo, mid, right.carry)
       IN [low |-> right.low \o left.low, carry |-> left.carry]

\* limbs * k, and x + y for two strings of one length
TimesSmall(limbs, k) ==
  LET product == Carrying(limbs, k, Zeros(Len(limbs)), 1, Len(limbs), 0)
  IN Limbs(product.carry) \o Reversed(product.low)
PlusLimbs(x, y) ==
  LET sum == Carrying(x, 1, y, 1, Len(x), 0)
  IN Limbs(sum.carry) \o Reversed(sum.low)

\* The Double u places above x in the order of the Doubles (below for
\* u < 0), for -Limb < u < Limb.
Nudge(x, u) ==
  LET step == IF u >= 0 THEN Zeros(SignificandLimbs - 1) \o <<u>>
              ELSE [i \in 1..SignificandLimbs |->
                      IF i < SignificandLimbs THEN Limb - 1 ELSE Limb + u]
      moved == Reversed(Carrying(x.mant, 1, step, 1, SignificandLimbs, 0).low)
  IN IF moved[1] >= 2 * LeastTop
     THEN [mant |-> [moved EXCEPT ![1] = @ - LeastTop], exp |-> x.exp + 1]
     ELSE IF moved[1] < LeastTop
     THEN [mant |-> [moved EXCEPT ![1] = @ + LeastTop], exp |-> x.exp - 1]
     ELSE [mant |-> moved, exp |-> x.exp]

\* limbs * 2^e, or a little more when `inexact`, rounded to the nearest
\* Double, a tie to the one whose last bit is 0. The limbs have more than
\* SignificandBits bits from their first 1 on.
RoundToNearestEven(limbs, inexact, e) ==
  LET n == Len(limbs)
      f == CHOOSE i \in 1..n : limbs[i] # 0 /\ \A j \in 1..i-1 : limbs[j] = 0
      drop == (n - f) * LimbBits + BitLength(limbs[f]) - SignificandBits
      whole == (drop - 1) \div LimbBits
      rest == drop - whole * LimbBits
      division == LongDivision(limbs, 2^rest, f, n - whole, 0)
      last == Len(division.quotient)
      kept == [mant |-> SubSeq(division.quotient, last - SignificandLimbs + 1, last),
               exp |-> e + drop]
      half == 2^(rest - 1)
      sticky == \/ inexact
                \/ division.remainder % half # 0
                \/ \E j \in n-whole+1..n : limbs[j] # 0
  IN IF division.remainder >= half /\ (sticky \/ kept.mant[SignificandLimbs] % 2 = 1)
     THEN Nudge(kept, 1) ELSE kept

\* (limbs / d) * 2^e as a Double, for limbs that are not all 0 and
\* 0 < d < 2^(31 - LimbBits)
RoundRatio(limbs, d, e) ==
  LET wide == limbs \o Zeros(SignificandLimbs + 2)
      division == LongDivision(wide, d, 1, Len(wide), 0)
  IN RoundToNearestEven(division.quotient, division.remainder # 0,
                        e - (SignificandLimbs + 2) * LimbBits)

\* t kept within -Far..Far
Near(t) == IF t > Far THEN Far ELSE IF t < 0 - Far THEN 0 - Far ELSE t

RECURSIVE PlacesAbove(_, _, _, _, _)
\* (a[lo..hi] - b[lo..hi]) + acc * Limb^(hi-lo+1), kept within -Far..Far
PlacesAbove(a, b, lo, hi, acc) ==
  IF lo = hi THEN Near(Limb * acc + a[lo] - b[lo])
  ELSE LET left == PlacesAbove(a, b, lo, (lo + hi) \div 2, acc)
       IN IF left = Far \/ left = 0 - Far THEN left
          ELSE PlacesAbove(a, b, (lo + hi) \div 2 + 1, hi, left)

\* How many Doubles x lies above y (below when negative), up to Far.
UlpsBetween(x, y) ==
  CASE x.exp = y.exp -> PlacesAbove(x.mant, y.mant, 1, SignificandLimbs, 0)
    [] x.exp = y.exp + 1 ->
         PlacesAbove([x.mant EXCEPT ![1] = @ + LeastTop], y.mant, 1, SignificandLimbs, 0)
    [] x.exp = y.exp - 1 ->
         PlacesAbove(x.mant, [y.mant EXCEPT ![1] = @ + LeastTop], 1, SignificandLimbs, 0)
    [] x.exp > y.exp + 1 -> Far
    [] OTHER -> 0 - Far

\* A quantity is a Double, written against a fraction: [num, den] is the
\* Double nearest to num/den, as a decimal literal denotes it, and
\* [num, den, ulp] is the Double ulp places above that one.
UlpOf(x) == IF "ulp" \in DOMAIN x THEN x.ulp ELSE 0
Nominal(x) == [num |-> x.num, den |-> x.den]
Nearest(r) == RoundRatio(Limbs(r.num), r.den, 0)
DoubleOf(x) == Nudge(Nearest(x), UlpOf(x))
Quantity(r, double) ==
  LET u == UlpsBetween(double, Nearest(r))
  IN IF u = 0 THEN r ELSE [num |-> r.num, den |-> r.den, ulp |-> u]

\* x * k and x / k in Double arithmetic, for a whole number
\* 0 < k < 2^(31 - LimbBits)
RatTimes(x, k) ==
  IF x.num = 0 THEN Zero
  ELSE LET this == DoubleOf(x)
       IN Quantity(Rat(x.num * k, x.den), RoundRatio(TimesSmall(this.mant, k), 1, this.exp))
RatOver(x, k) ==
  IF x.num = 0 THEN Zero
  ELSE LET this == DoubleOf(x)
       IN Quantity(Rat(x.num, x.den * k), RoundRatio(this.mant, k, this.exp))

\* The significand of the Double v counted in units of 2^e, for e <= v.exp
Aligned(v, e) ==
  TimesSmall(v.mant \o Zeros((v.exp - e) \div LimbBits), 2^((v.exp - e) % LimbBits))
Padded(limbs, n) == Zeros(n - Len(limbs)) \o limbs

\* x + y in Double arithmetic
DoublePlus(x, y) ==
  IF x.num = 0 THEN y
  ELSE IF y.num = 0 THEN x
  ELSE LET this == DoubleOf(x)
           that == DoubleOf(y)
           e == IF this.exp < that.exp THEN this.exp ELSE that.exp
           p == Aligned(this, e)
           q == Aligned(that, e)
           n == IF Len(p) < Len(q) THEN Len(q) ELSE Len(p)
       IN Quantity(RatAdd(Nominal(x), Nominal(y)),
                   RoundRatio(PlusLimbs(Padded(p, n), Padded(q, n)), 1, e))

RECURSIVE SumOfQuantities(_)
\* The plain sum of the values of a set of quantity samples, added as
\* Doubles one after the other.
SumOfQuantities(S) ==
  IF S = {} THEN Zero
  ELSE LET s == CHOOSE x \in S : TRUE
       IN DoublePlus(s.value, SumOfQuantities(S \ {s}))

(***************************************************************************)
(* The store's query engine                                                *)
(***************************************************************************)
\* HKObjectQueryNoLimit
HKObjectQueryNoLimit == 0

\* A predicate that matches every sample overlapping the range.
predicateForSamplesOverlap(s, startDate, endDate) ==
  s.startDate < endDate /\ s.endDate >= startDate

\* HKQuery.predicateForSamples(withStart:end:options: .strictStartDate)
predicateForSamples(s, startDate, endDate) ==
  startDate <= s.startDate /\ s.startDate < endDate

\* The same predicate over workouts, whose dates, like the ends of the range,
\* are times.
predicateForSamplesBetween(s, startDate, endDate) ==
  ~Before(s.startDate, startDate) /\ Before(s.startDate, endDate)

\* HKQuery.predicateForObject(with: uuid)
predicateForObject(s, uuid) == s.uuid = uuid

\* Every ordering of the set S, sorted or not.
InAnyOrder(S) ==
  { q \in [1..Cardinality(S) -> S] :
      \A i, j \in 1..Cardinality(S) : i # j => q[i] # q[j] }

\* Every ordering of the set S of workouts by end date descending (ties in
\* any order).
WorkoutsByEndDateDescending(S) ==
  { q \in [1..Cardinality(S) -> S] :
      /\ \A i, j \in 1..Cardinality(S) : i # j => q[i] # q[j]
      /\ \A i \in 1..(Cardinality(S) - 1) : ~Before(q[i].endDate, q[i + 1].endDate) }

\* Every ordering of the set S of samples by end date descending (ties in
\* any order).
SortedByEndDateDescending(S) ==
  { q \in [1..Cardinality(S) -> S] :
      /\ \A i, j \in 1..Cardinality(S) : i # j => q[i] # q[j]
      /\ \A i \in 1..(Cardinality(S) - 1) : q[i].endDate >= q[i + 1].endDate }

\* A limit without a sentinel: the first `limit` elements, none for 0.
ApplyLimitLiterally(q, limit) ==
  IF limit >= Len(q) THEN q ELSE SubSeq(q, 1, limit)

\* The first `limit` elements of q; HKObjectQueryNoLimit keeps them all.
ApplyLimit(q, limit) ==
  IF limit = HKObjectQueryNoLimit \/ limit >= Len(q) THEN q
  ELSE SubSeq(q, 1, limit)

\* The result arrays an HKSampleQuery may deliver for the matching set S.
SampleQueryResults(S, limit) ==
  { ApplyLimit(q, limit) : q \in SortedByEndDateDescending(S) }

\* The result arrays an HKSampleQuery over workouts may deliver.
WorkoutQueryResults(S, limit) ==
  { ApplyLimit(q, limit) : q \in WorkoutsByEndDateDescending(S) }

\* HKStatisticsQuery(.cumulativeSum).sumQuantity(): <<>> (nil) without samples.
sumQuantity(S) == IF S = {} THEN <<>> ELSE <<SumOfQuantities(S)>>

(***************************************************************************)
(* Calls and continuations                                                 *)
(***************************************************************************)
\* A public operation that has been entered and has not returned yet.
NewCall(op, args) ==
  [op |-> op, args |-> args, status |-> "pending", stage |-> "start",
   value |-> <<>>, error |-> NoError, resumes |-> 0, answers |-> <<>>,
   native |-> <<>>, objects |-> <<>>]

\* The call leaves by `throw` before any store call.
Thrown(c, error) == [c EXCEPT !.status = "failed", !.error = error]

\* continuation.resume(returning:) / continuation.resume(throwing:)
Returning(v) == [throws |-> FALSE, value |-> <<v>>, error |-> NoError]
Throwing(e) == [throws |-> TRUE, value |-> <<>>, error |-> e]

\* The callback ran the resumes rs, in order, on the call's continuation: the
\* first resume of a continuation completes the awaitable.
Resumed(c, rs) ==
  IF rs = <<>> \/ c.resumes > 0
  THEN [c EXCEPT !.resumes = c.resumes + Len(rs)]
  ELSE [c EXCEPT !.resumes = Len(rs),
                 !.status = IF rs[1].throws THEN "failed" ELSE "success",
                 !.value = rs[1].value,
                 !.error = rs[1].error]

\* A checked continuation traps when it is resumed a second time.
Traps(c) == c.resumes > 1

(***************************************************************************)
(* Records                                                                 *)
(***************************************************************************)
\* `x ?? d` on an optional
OrElse(x, d) == IF x = <<>> THEN d ELSE x[1]

\* An HKWorkout built with distance and energy exchanged.
HKWorkoutSwapped(data, uuid) ==
  [uuid |-> uuid, source |-> "self",
   workoutActivityType |->
     parseActivityType(OrElse(asString(data, "activityType"),
                              <<"r","u","n","n","i","n","g">>)),
   startDate |-> DateSince1970(asDouble(data, "startDate")[1]),
   endDate |-> DateSince1970(asDouble(data, "endDate")[1]),
   duration |-> asDouble(data, "duration")[1],
   totalEnergyBurned |-> asDouble(data, "distance"),
   totalDistance |-> asDouble(data, "calories")]

\* The HKWorkout that saveWorkout builds from its input. Its duration and its
\* totals are Doubles, written as fractions; its dates are times, the seconds
\* since 1970 that the Dates read back.
HKWorkout(data, uuid) ==
  [uuid |-> uuid, source |-> "self",
   workoutActivityType |->
     parseActivityType(OrElse(asString(data, "activityType"),
                              <<"r","u","n","n","i","n","g">>)),
   startDate |-> DateSince1970(asDouble(data, "startDate")[1]),
   endDate |-> DateSince1970(asDouble(data, "endDate")[1]),
   duration |-> asDouble(data, "duration")[1],
   totalEnergyBurned |-> asDouble(data, "calories"),
   totalDistance |-> asDouble(data, "distance")]

\* A guard that requires the two dates and the duration only.
MissingDatesOrDuration(data) ==
  \E k \in {"startDate", "endDate", "duration"} : asDouble(data, k) = <<>>

\* The guard of saveWorkout fails: a required field is missing or no number.
MissingRequiredWorkoutData(data) ==
  \E k \in {"startDate", "endDate", "duration", "distance", "calories"} :
    asDouble(data, k) = <<>>

\* A dictionary that leaves out a distance or an energy the workout lacks.
WorkoutDictionaryWithoutAbsent(w) ==
  LET always == [id |-> w.uuid,
                 activityType |-> formatActivityType(w.workoutActivityType),
                 startDate |-> w.startDate,
                 endDate |-> w.endDate,
                 duration |-> w.duration]
      present == { k \in {"distance", "calories"} :
                     IF k = "distance" THEN w.totalDistance # <<>>
                                       ELSE w.totalEnergyBurned # <<>> }
  IN [k \in DOMAIN always \cup present |->
        IF k \in DOMAIN always THEN always[k]
        ELSE IF k = "distance" THEN w.totalDistance[1]
        ELSE w.totalEnergyBurned[1]]

\* The dictionary queryWorkouts returns for the stored workout w.
WorkoutDictionary(w) ==
  [id |-> w.uuid,
   activityType |-> formatActivityType(w.workoutActivityType),
   startDate |-> w.startDate,
   endDate |-> w.endDate,
   duration |-> w.duration,
   distance |-> OrElse(w.totalDistance, Zero),
   calories |-> OrElse(w.totalEnergyBurned, Zero)]

\* The HKQuantitySample that saveQuantitySample builds.
HKQuantitySample(identifier, value, date, uuid) ==
  [uuid |-> uuid, source |-> "self", type |-> identifier, value |-> value,
   startDate |-> date, endDate |-> date]

(***************************************************************************)
(* Callback bodies: the resumes each one performs, in order                *)
(***************************************************************************)
\* samples and error are optionals: <<>> is nil.

\* The results handler of queryWorkouts without its first `return`.
queryWorkoutsHandlerFallsThrough(smpls, error) ==
  (IF error # <<>> THEN <<Throwing(Err("queryFailed", error[1]))>> ELSE <<>>)
  \o (IF smpls = <<>>
      THEN <<Returning(<<>>)>>
      ELSE <<Returning([i \in 1..Len(smpls[1]) |-> WorkoutDictionary(smpls[1][i])])>>)

\* The results handler of queryWorkouts.
queryWorkoutsHandler(smpls, error) ==
  IF error # <<>> THEN <<Throwing(Err("queryFailed", error[1]))>>
  ELSE IF smpls = <<>> THEN <<Returning(<<>>)>>
  ELSE <<Returning([i \in 1..Len(smpls[1]) |-> WorkoutDictionary(smpls[1][i])])>>

\* A completion handler that passes the store's error on as it is.
statisticsHandlerRethrows(result, error) ==
  IF error # <<>> THEN <<Throwing(Err("store", error[1]))>>
  ELSE <<Returning(OrElse(result, Zero))>>

\* The completion handler of the statistics queries (getTotalDistance,
\* getTotalCalories, getQuantitySum); result is the optional sum quantity.
statisticsHandler(result, error) ==
  IF error # <<>> THEN <<Throwing(Err("queryFailed", error[1]))>>
  ELSE <<Returning(OrElse(result, Zero))>>

\* A results handler of deleteWorkout's lookup that reports an empty result
\* as a failed query.
deleteWorkoutHandlerNotFoundAsQueryFailed(smpls, error) ==
  IF error # <<>>
  THEN [resumes |-> <<Throwing(Err("queryFailed", error[1]))>>, delete |-> <<>>]
  ELSE IF smpls = <<>> \/ smpls[1] = <<>>
  THEN [resumes |-> <<Throwing(Err("queryFailed", ""))>>, delete |-> <<>>]
  ELSE [resumes |-> <<>>, delete |-> <<smpls[1][1]>>]

\* The results handler of deleteWorkout's lookup: the resumes it performs and
\* the workout it hands to healthStore.delete, if any.
deleteWorkoutHandler(smpls, error) ==
  IF error # <<>>
  THEN [resumes |-> <<Throwing(Err("queryFailed", error[1]))>>, delete |-> <<>>]
  ELSE IF smpls = <<>> \/ smpls[1] = <<>>
  THEN [resumes |-> <<Throwing(Err("workoutNotFound", ""))>>, delete |-> <<>>]
  ELSE [resumes |-> <<>>, delete |-> <<smpls[1][1]>>]

\* A completion of healthStore.delete that reports success whatever it is told.
deleteCompletionIgnoresFailure(success, error) == <<Returning("void")>>

\* A completion that reports a refused delete as a record that was not found.
deleteCompletionRefusedAsNotFound(success, error) ==
  IF error # <<>> THEN <<Throwing(Err("saveFailed", error[1]))>>
  ELSE IF success THEN <<Returning("void")>>
  ELSE <<Throwing(Err("workoutNotFound", ""))>>

\* The completion of healthStore.delete inside deleteWorkout.
deleteCompletion(success, error) ==
  IF error # <<>> THEN <<Throwing(Err("saveFailed", error[1]))>>
  ELSE IF success THEN <<Returning("void")>>
  ELSE <<Throwing(Err("saveFailed", "Failed to delete workout"))>>

(***************************************************************************)
(* Bounds and inputs                                                       *)
(***************************************************************************)
\* The number of public operations issued in one run.
MaxCalls == 3

\* The number of operations in flight at once.
MaxInFlight == 2

InFlight == Cardinality({ i \in DOMAIN calls : calls[i].status = "pending" })

S_running == <<"r","u","n","n","i","n","g">>
S_yoga == <<"y","o","g","a">>

\* The workout of the round-trip example, and a second one whose times,
\* distance and energy are no whole numbers; its times are multiples of
\* 2^-23 s.
WorkoutA ==
  [startDate |-> Num(3600), endDate |-> Num(7200), duration |-> Num(3600),
   distance |-> Num(5000), calories |-> Num(350), activityType |-> Str(S_running)]

WorkoutB ==
  [startDate |-> Real(Rat(20001, 2)), endDate |-> Real(Rat(27201, 2)),
   duration |-> Num(3600), distance |-> Real(Rat(6001, 2)),
   calories |-> Real(Rat(801, 4)), activityType |-> Str(S_yoga)]

\* A workout whose times are no multiples of 2^-23 s, and one of September
\* 2001, half a second past the second.
WorkoutC ==
  [startDate |-> Real(Rat(200001, 1000)), endDate |-> Real(Rat(3800001, 1000)),
   duration |-> Num(3600), distance |-> Num(5000), calories |-> Num(350),
   activityType |-> Str(S_running)]

WorkoutD ==
  [startDate |-> Real(Rat(2000000001, 2)), endDate |-> Real(Rat(2000007201, 2)),
   duration |-> Num(3600), distance |-> Num(5000), calories |-> Num(350),
   activityType |-> Str(S_running)]

\* A workout that starts 2^-25 s before second 3, which a Date holds as
\* second 3.
WorkoutE ==
  [startDate |-> Real(Rat(100663295, 33554432)), endDate |-> Num(3603),
   duration |-> Num(3600), distance |-> Num(5000), calories |-> Num(350),
   activityType |-> Str(S_running)]

\* Inputs of saveWorkout: two complete ones and one without its distance.
WorkoutInputs ==
  { WorkoutA, WorkoutB,
    [startDate |-> Num(3600), endDate |-> Num(7200), duration |-> Num(3600),
     calories |-> Num(350), activityType |-> Str(S_running)] }

\* Query ranges: around WorkoutA, and everything.
Ranges == { <<3599, 7201>>, <<0, 20000>> }

\* Optional limits of a query.
Limits == { <<>> }

\* Ids handed to deleteWorkout: the ids saveWorkout has returned, an id that
\* was never given out, and the README's placeholder.
S_workout_uuid == <<"w","o","r","k","o","u","t","-","u","u","i","d">>

ReturnedIds ==
  { calls[i].value[1] :
      i \in { k \in DOMAIN calls : calls[k].op = "saveWorkout"
                                   /\ calls[k].status = "success" } }

DeleteIds == ReturnedIds \cup { uuidString(15), S_workout_uuid }

\* What the store may answer to a query, as documented: an error or results.
DocumentedOutcomes == { "error", "results" }
\* ... and with the answer that carries neither results nor an error.
AllOutcomes == { "error", "results", "missing" }

(***************************************************************************)
(* Initial state                                                           *)
(***************************************************************************)
IdleProbe == [fn |-> "none", arg |-> <<>>, out |-> <<>>]

\* A fresh manager over an empty store, on a device with or without health
\* data.
InitStore ==
  /\ available \in BOOLEAN
  /\ workouts = {}
  /\ samples = {}
  /\ sleepSamples = {}
  /\ calls = <<>>
  /\ nextUuid = 0
  /\ crashed = FALSE
  /\ probe = IdleProbe

Init == InitStore /\ osVersion16 = TRUE

(***************************************************************************)
(* Helpers of the actions                                                  *)
(***************************************************************************)
\* Call i is waiting for the store's callback of the given stage.
Awaiting(i, op, stage) ==
  /\ ~crashed
  /\ i \in DOMAIN calls
  /\ calls[i].op = op
  /\ calls[i].status = "pending"
  /\ calls[i].stage = stage

\* The store called call i back before and does so again.
CalledBack(i, op) ==
  /\ ~crashed
  /\ i \in DOMAIN calls
  /\ calls[i].op = op
  /\ calls[i].answers # <<>>

\* The error argument of a callback.
ErrorOf(outcome) == IF outcome = "error" THEN <<StoreErrorText>> ELSE <<>>

\* The store answers "results" only on a device where health data exists.
Answers(outcome) == outcome = "results" => available

\* The store answered call c with `outcome` and the callback performed the
\* resumes rs.
AfterCallback(c, outcome, rs) ==
  Resumed([c EXCEPT !.answers = Append(c.answers, outcome)], rs)

(***************************************************************************)
(* saveWorkout                                                             *)
(***************************************************************************)
\* saveWorkout up to `try await healthStore.save(workout)`.
saveWorkout(data) ==
  /\ ~crashed
  /\ IF MissingRequiredWorkoutData(data)
     THEN /\ calls' = Append(calls,
                 Thrown(NewCall("saveWorkout", data),
                        Err("missingRequiredData", "Missing required workout data")))
          /\ UNCHANGED nextUuid
     ELSE /\ calls' = Append(calls,
                 [NewCall("saveWorkout", data) EXCEPT
                    !.native = <<"save">>,
                    !.objects = <<HKWorkout(data, uuidString(nextUuid))>>])
          /\ nextUuid' = nextUuid + 1
  /\ UNCHANGED <<available, osVersion16, sleepSamples, workouts, samples, crashed, probe>>

\* A save that, when an equal workout is stored already, stores nothing and
\* returns the id of the stored one.
saveWorkoutReturnDeduplicating(i, saved) ==
  /\ Awaiting(i, "saveWorkout", "start")
  /\ saved => available
  /\ LET c == calls[i]
         equal == { w \in workouts : [w EXCEPT !.uuid = c.objects[1].uuid] = c.objects[1] }
     IN
     IF saved
     THEN /\ workouts' = IF equal = {} THEN workouts \cup {c.objects[1]} ELSE workouts
          /\ calls' = [calls EXCEPT ![i] =
                 AfterCallback(c, "saved",
                   <<Returning(IF equal = {} THEN c.objects[1].uuid
                               ELSE (CHOOSE w \in equal : TRUE).uuid)>>)]
     ELSE /\ workouts' = workouts
          /\ calls' = [calls EXCEPT ![i] =
                 AfterCallback(c, "error",
                               <<Throwing(Err("saveFailed", StoreErrorText))>>)]
  /\ UNCHANGED <<available, osVersion16, sleepSamples, samples, nextUuid, crashed, probe>>

\* healthStore.save returns or throws; saveWorkout returns the id or throws.
saveWorkoutReturn(i, saved) ==
  /\ Awaiting(i, "saveWorkout", "start")
  /\ saved => available
  /\ LET c == calls[i] IN
     IF saved
     THEN /\ workouts' = workouts \cup {c.objects[1]}
          /\ calls' = [calls EXCEPT ![i] =
                 AfterCallback(c, "saved", <<Returning(c.objects[1].uuid)>>)]
     ELSE /\ workouts' = workouts
          /\ calls' = [calls EXCEPT ![i] =
                 AfterCallback(c, "error",
                               <<Throwing(Err("saveFailed", StoreErrorText))>>)]
  /\ UNCHANGED <<available, osVersion16, sleepSamples, samples, nextUuid, crashed, probe>>

(***************************************************************************)
(* queryWorkouts                                                           *)
(***************************************************************************)
\* queryWorkouts up to healthStore.execute(query).
queryWorkouts(startDate, endDate, limit) ==
  /\ ~crashed
  /\ calls' = Append(calls,
        [NewCall("queryWorkouts",
                 [startDate |-> startDate, endDate |-> endDate, limit |-> limit])
           EXCEPT !.native = <<"execute">>])
  /\ UNCHANGED <<available, osVersion16, sleepSamples, workouts, samples, nextUuid, crashed, probe>>

\* A query answered from the store and from the workouts that earlier
\* saveWorkout and deleteWorkout calls of this manager held.
MatchingWorkoutsRemembered(c) ==
  { w \in workouts \cup { calls[i].objects[1] :
                            i \in { j \in DOMAIN calls :
                                      /\ calls[j].op \in {"saveWorkout", "deleteWorkout"}
                                      /\ calls[j].status = "success" } } :
      predicateForSamplesBetween(w, AtSecond(c.args.startDate), AtSecond(c.args.endDate)) }

\* The public queryWorkouts(options) up to healthStore.execute(query). A
\* Date in the options is [t |-> "date", ms |-> milliseconds]; `now` is what
\* Date() reads when the module function runs. The call keeps its options and
\* the clock reading next to the two Doubles its module function reads, of
\* which it makes the Dates of the range it hands to the manager.
queryWorkoutsWithOptions(options, now) ==
  LET queryOptions == tsQueryOptions(options)
      startDate == OrElse(asDouble(queryOptions, "startDate"), Zero)
      endDate == OrElse(asDouble(queryOptions, "endDate"), Whole(now))
      limit == IF "limit" \in DOMAIN queryOptions /\ queryOptions.limit.t = "num"
               THEN <<queryOptions.limit.v>> ELSE <<>>
  IN /\ ~crashed
     /\ calls' = Append(calls,
           [NewCall("queryWorkouts",
                    [startDate |-> startDate, endDate |-> endDate, limit |-> limit,
                     options |-> options, now |-> now])
              EXCEPT !.native = <<"execute">>])
     /\ UNCHANGED <<available, osVersion16, sleepSamples, workouts, samples, nextUuid, crashed, probe>>

\* The workouts the query of call c matches: the module function makes Dates
\* of the two Doubles of its options; the manager is handed Dates, which the
\* model draws at whole seconds.
MatchingWorkouts(c) ==
  { w \in workouts :
      IF "options" \in DOMAIN c.args
      THEN predicateForSamplesBetween(w, DateSince1970(c.args.startDate),
                                         DateSince1970(c.args.endDate))
      ELSE predicateForSamplesBetween(w, AtSecond(c.args.startDate),
                                         AtSecond(c.args.endDate)) }

\* The store runs the query and invokes the results handler.
queryWorkoutsResults(i, outcome, first) ==
  /\ IF first THEN Awaiting(i, "queryWorkouts", "start")
              ELSE CalledBack(i, "queryWorkouts")
  /\ Answers(outcome)
  /\ LET c == calls[i] IN
     \E smpls \in IF outcome = "results"
                  THEN { <<q>> : q \in WorkoutQueryResults(MatchingWorkouts(c),
                                         OrElse(c.args.limit, HKObjectQueryNoLimit)) }
                  ELSE { <<>> } :
       /\ calls' = [calls EXCEPT ![i] =
              AfterCallback(c, outcome, queryWorkoutsHandler(smpls, ErrorOf(outcome)))]
       /\ crashed' = Traps(calls'[i])
  /\ UNCHANGED <<available, osVersion16, sleepSamples, workouts, samples, nextUuid, probe>>

(***************************************************************************)
(* Aggregates: getTotalDistance, getTotalCalories, getQuantitySum          *)
(***************************************************************************)
\* The operations built on getQuantitySum, getLatestQuantity and
\* getQuantitySamples.
SumReads == { "getSteps", "getFlightsClimbed", "getWaterIntake" }
LatestReads ==
  { "getLatestHeight", "getLatestWeight", "getLatestBMI", "getLatestBodyFat",
    "getLatestHeartRate", "getRestingHeartRate" }
SampleReads == { "getHeartRateSamples", "getOxygenSaturation" }

\* The quantity type each latest-value read asks for.
LatestType(op) ==
  CASE op = "getLatestHeight" -> "height"
    [] op = "getLatestWeight" -> "bodyMass"
    [] op = "getLatestBMI" -> "bodyMassIndex"
    [] op = "getLatestBodyFat" -> "bodyFatPercentage"
    [] op = "getLatestHeartRate" -> "heartRate"
    [] op = "getRestingHeartRate" -> "restingHeartRate"

\* The quantity type each sample read asks for.
SamplesType(op) ==
  CASE op = "getHeartRateSamples" -> "heartRate"
    [] op = "getOxygenSaturation" -> "oxygenSaturation"

\* An operation that returns what its helper returned.
AfterAwaitVerbatim(op, value) == value

\* What the operation does to the value its helper returned.
AfterAwait(op, value) ==
  CASE op = "getWaterIntake" -> RatTimes(value, 1000)
    [] op = "getLatestBodyFat" ->
         IF value = <<>> THEN <<>> ELSE <<RatTimes(value[1], 100)>>
    [] OTHER -> value

\* Call c became d when its helper's continuation was resumed: a value
\* returned to the operation passes through the operation's own conversion.
Converted(c, d) ==
  IF c.status = "pending" /\ d.status = "success"
  THEN [d EXCEPT !.value = <<AfterAwait(d.op, d.value[1])>>]
  ELSE d

\* The aggregates: each hands one quantity type to HKStatisticsQuery.
Aggregates == { "getTotalDistance", "getTotalCalories" } \cup SumReads

StatisticsType(op) ==
  CASE op = "getTotalDistance" -> "distanceWalkingRunning"
    [] op = "getTotalCalories" -> "activeEnergyBurned"
    [] op = "getSteps" -> "stepCount"
    [] op = "getFlightsClimbed" -> "flightsClimbed"
    [] op = "getWaterIntake" -> "dietaryWater"

\* An aggregate that gives up on the store as soon as it has issued its query.
getSumTimingOut(op, startDate, endDate) ==
  /\ ~crashed
  /\ calls' = Append(calls,
        Thrown([NewCall(op, [startDate |-> startDate, endDate |-> endDate])
                  EXCEPT !.native = <<"execute">>],
               Err("queryFailed", "timed out")))
  /\ UNCHANGED <<available, osVersion16, sleepSamples, workouts, samples, nextUuid, crashed, probe>>

\* An aggregate up to healthStore.execute(query).
getSum(op, startDate, endDate) ==
  /\ ~crashed
  /\ calls' = Append(calls,
        [NewCall(op, [startDate |-> startDate, endDate |-> endDate])
           EXCEPT !.native = <<"execute">>])
  /\ UNCHANGED <<available, osVersion16, sleepSamples, workouts, samples, nextUuid, crashed, probe>>

\* A manager that keeps the range of the query entered last in a field of its
\* own, from which every handler reads.
MatchingSamplesOfLastCall(c, type) ==
  { s \in samples : /\ s.type = type
                    /\ predicateForSamples(s, calls[Len(calls)].args.startDate,
                                              calls[Len(calls)].args.endDate) }

\* The quantity samples the statistics query of call c covers.
MatchingSamples(c, type) ==
  { s \in samples : /\ s.type = type
                    /\ predicateForSamples(s, c.args.startDate, c.args.endDate) }

\* The store computes the statistics and invokes the completion handler.
getSumResults(i, outcome, first) ==
  /\ i \in DOMAIN calls
  /\ calls[i].op \in Aggregates
  /\ IF first THEN Awaiting(i, calls[i].op, "start") ELSE CalledBack(i, calls[i].op)
  /\ Answers(outcome)
  /\ LET c == calls[i]
         result == IF outcome = "results"
                   THEN sumQuantity(MatchingSamples(c, StatisticsType(c.op)))
                   ELSE <<>>
     IN /\ calls' = [calls EXCEPT ![i] =
               Converted(c, AfterCallback(c, outcome,
                                          statisticsHandler(result, ErrorOf(outcome))))]
        /\ crashed' = Traps(calls'[i])
  /\ UNCHANGED <<available, osVersion16, sleepSamples, workouts, samples, nextUuid, probe>>

(***************************************************************************)
(* deleteWorkout                                                           *)
(***************************************************************************)
\* deleteWorkout up to healthStore.execute(query).
deleteWorkout(id) ==
  /\ ~crashed
  /\ IF UUIDFromString(id) = <<>>
     THEN calls' = Append(calls,
             Thrown(NewCall("deleteWorkout", [id |-> id]),
                    Err("missingRequiredData", "Invalid workout ID")))
     ELSE calls' = Append(calls,
             [NewCall("deleteWorkout", [id |-> id]) EXCEPT
                !.stage = "lookup", !.native = <<"execute">>])
  /\ UNCHANGED <<available, osVersion16, sleepSamples, workouts, samples, nextUuid, crashed, probe>>

\* The workouts deleteWorkout's lookup matches.
LookupWorkouts(c) ==
  { w \in workouts : predicateForObject(w, UUIDFromString(c.args.id)[1]) }

\* The store runs the lookup and invokes its results handler, which either
\* completes the call or hands the workout found to healthStore.delete.
deleteWorkoutLookup(i, outcome) ==
  /\ Awaiting(i, "deleteWorkout", "lookup")
  /\ Answers(outcome)
  /\ LET c == calls[i] IN
     \E smpls \in IF outcome = "results"
                  THEN { <<q>> : q \in WorkoutQueryResults(LookupWorkouts(c), 1) }
                  ELSE { <<>> } :
       LET h == deleteWorkoutHandler(smpls, ErrorOf(outcome))
           d == AfterCallback(c, outcome, h.resumes)
       IN calls' = [calls EXCEPT ![i] =
            IF h.delete = <<>> THEN d
            ELSE [d EXCEPT !.stage = "delete",
                           !.native = Append(c.native, "delete"),
                           !.objects = h.delete]]
  /\ UNCHANGED <<available, osVersion16, sleepSamples, workouts, samples, nextUuid, crashed, probe>>

\* A store that, asked to delete one workout, deletes every workout.
deleteWorkoutCompletionOfAll(i, outcome) ==
  /\ Awaiting(i, "deleteWorkout", "delete")
  /\ LET c == calls[i]
         w == c.objects[1]
     IN /\ outcome = "deleted" => available /\ w \in workouts
        /\ workouts' = IF outcome = "deleted"
                       THEN {}
                       ELSE workouts
        /\ calls' = [calls EXCEPT ![i] =
               AfterCallback(c, outcome,
                             deleteCompletion(outcome = "deleted", ErrorOf(outcome)))]
        /\ crashed' = Traps(calls'[i])
  /\ UNCHANGED <<available, osVersion16, sleepSamples, samples, nextUuid, probe>>

\* The store deletes the workout (or fails to) and invokes the completion.
\* outcome: "deleted" (true, nil), "error" (false, error), "refused" (false, nil).
deleteWorkoutCompletion(i, outcome) ==
  /\ Awaiting(i, "deleteWorkout", "delete")
  /\ LET c == calls[i]
         w == c.objects[1]
     IN /\ outcome = "deleted" => available /\ w \in workouts
        /\ workouts' = IF outcome = "deleted" THEN workouts \ {w} ELSE workouts
        /\ calls' = [calls EXCEPT ![i] =
               AfterCallback(c, outcome,
                             deleteCompletion(outcome = "deleted", ErrorOf(outcome)))]
        /\ crashed' = Traps(calls'[i])
  /\ UNCHANGED <<available, osVersion16, sleepSamples, samples, nextUuid, probe>>

(***************************************************************************)
(* requestAuthorization                                                    *)
(***************************************************************************)
\* A map that keeps the identifiers that resolve to nothing.
ParsedTypesKeepingNil(types) ==
  { parseDataType(types[k]) : k \in DOMAIN types }

\* `Set(types.compactMap { parseDataType($0) })`
ParsedTypes(types) ==
  { parseDataType(types[k]) : k \in DOMAIN types } \ { Nil }

\* The handles that are HKSampleType objects: the workout type and every
\* quantity and category type, that is every handle parseDataType builds.
IsSampleType(handle) == handle # Nil

\* The sets requestAuthorization hands to the store.
AuthorizationSets(readTypes, writeTypes) ==
  [toShare |-> ParsedTypes(writeTypes), read |-> ParsedTypes(readTypes)]

\* requestAuthorization up to `try await healthStore.requestAuthorization`.
requestAuthorization(readTypes, writeTypes) ==
  /\ ~crashed
  /\ LET c == NewCall("requestAuthorization",
                      [readTypes |-> readTypes, writeTypes |-> writeTypes])
         sets == AuthorizationSets(readTypes, writeTypes)
     IN IF ~available
        THEN /\ calls' = Append(calls, Thrown(c, Err("notAvailable", "")))
             /\ UNCHANGED crashed
        ELSE IF \E h \in sets.toShare : ~IsSampleType(h)
        THEN \* `as! Set<HKSampleType>` traps
             /\ calls' = Append(calls, c)
             /\ crashed' = TRUE
        ELSE /\ calls' = Append(calls,
                    [c EXCEPT !.native = <<"requestAuthorization">>,
                              !.objects = <<sets>>])
             /\ UNCHANGED crashed
  /\ UNCHANGED <<available, osVersion16, sleepSamples, workouts, samples, nextUuid, probe>>

\* The store's authorization request returns or throws.
requestAuthorizationReturn(i, granted) ==
  /\ Awaiting(i, "requestAuthorization", "start")
  /\ calls[i].native # <<>>
  /\ calls' = [calls EXCEPT ![i] =
        IF granted
        THEN AfterCallback(@, "granted", <<Returning("void")>>)
        ELSE AfterCallback(@, "error",
                           <<Throwing(Err("authorizationFailed", StoreErrorText))>>)]
  /\ UNCHANGED <<available, osVersion16, sleepSamples, workouts, samples, nextUuid, crashed, probe>>

(***************************************************************************)
(* Convenience saves                                                       *)
(***************************************************************************)
\* The quantity type each convenience save writes.
SaveIdentifier(op) ==
  CASE op = "saveHeight" -> "height"
    [] op = "saveWeight" -> "bodyMass"
    [] op = "saveBodyFat" -> "bodyFatPercentage"
    [] op = "saveWater" -> "dietaryWater"
    [] op = "saveCaffeine" -> "dietaryCaffeine"
    [] op = "saveProtein" -> "dietaryProtein"
    [] op = "saveCarbs" -> "dietaryCarbohydrates"
    [] op = "saveFat" -> "dietaryFatTotal"

\* A save that stores every value as it is given.
SaveNativeValueVerbatim(op, value) == value

\* The value each convenience save stores for the value it is given.
SaveNativeValue(op, value) ==
  CASE op = "saveBodyFat" -> RatOver(value, 100)
    [] op = "saveWater" -> RatOver(value, 1000)
    [] op = "saveCaffeine" -> RatOver(value, 1000)
    [] OTHER -> value

ConvenienceSaves ==
  { "saveHeight", "saveWeight", "saveBodyFat", "saveWater", "saveCaffeine",
    "saveProtein", "saveCarbs", "saveFat" }

\* A convenience save up to `try await healthStore.save(sample)`.
saveQuantity(op, value, date) ==
  /\ ~crashed
  /\ calls' = Append(calls,
        [NewCall(op, [value |-> value, date |-> date]) EXCEPT
           !.native = <<"save">>,
           !.objects = <<HKQuantitySample(SaveIdentifier(op), SaveNativeValue(op, value),
                                          date, uuidString(nextUuid))>>])
  /\ nextUuid' = nextUuid + 1
  /\ UNCHANGED <<available, osVersion16, sleepSamples, workouts, samples, crashed, probe>>

\* healthStore.save returns or throws inside saveQuantitySample.
saveQuantityReturn(i, saved) ==
  /\ i \in DOMAIN calls
  /\ Awaiting(i, calls[i].op, "start")
  /\ calls[i].op \in ConvenienceSaves
  /\ saved => available
  /\ LET c == calls[i] IN
     IF saved
     THEN /\ samples' = samples \cup {c.objects[1]}
          /\ calls' = [calls EXCEPT ![i] = AfterCallback(c, "saved", <<Returning("void")>>)]
     ELSE /\ samples' = samples
          /\ calls' = [calls EXCEPT ![i] =
                 AfterCallback(c, "error", <<Throwing(Err("saveFailed", StoreErrorText))>>)]
  /\ UNCHANGED <<available, osVersion16, sleepSamples, workouts, nextUuid, crashed, probe>>

\* saveBloodPressure up to the save of the systolic sample.
saveBloodPressure(systolic, diastolic, date) ==
  /\ ~crashed
  /\ calls' = Append(calls,
        [NewCall("saveBloodPressure",
                 [systolic |-> systolic, diastolic |-> diastolic, date |-> date])
           EXCEPT !.stage = "systolic",
                  !.native = <<"save">>,
                  !.objects = <<HKQuantitySample("bloodPressureSystolic", systolic,
                                                 date, uuidString(nextUuid))>>])
  /\ nextUuid' = nextUuid + 1
  /\ UNCHANGED <<available, osVersion16, sleepSamples, workouts, samples, crashed, probe>>

\* The save of the systolic sample returns or throws; on success
\* saveBloodPressure goes on to the save of the diastolic sample.
saveBloodPressureSystolicReturn(i, saved) ==
  /\ Awaiting(i, "saveBloodPressure", "systolic")
  /\ saved => available
  /\ LET c == calls[i] IN
     IF saved
     THEN /\ samples' = samples \cup {c.objects[1]}
          /\ calls' = [calls EXCEPT ![i] =
                 [c EXCEPT !.stage = "diastolic",
                           !.answers = Append(c.answers, "saved"),
                           !.native = Append(c.native, "save"),
                           !.objects = Append(c.objects,
                              HKQuantitySample("bloodPressureDiastolic", c.args.diastolic,
                                               c.args.date, uuidString(nextUuid)))]]
          /\ nextUuid' = nextUuid + 1
     ELSE /\ samples' = samples
          /\ calls' = [calls EXCEPT ![i] =
                 AfterCallback(c, "error", <<Throwing(Err("saveFailed", StoreErrorText))>>)]
          /\ nextUuid' = nextUuid
  /\ UNCHANGED <<available, osVersion16, sleepSamples, workouts, crashed, probe>>

\* The save of the diastolic sample returns or throws.
saveBloodPressureDiastolicReturn(i, saved) ==
  /\ Awaiting(i, "saveBloodPressure", "diastolic")
  /\ saved => available
  /\ LET c == calls[i] IN
     IF saved
     THEN /\ samples' = samples \cup {c.objects[2]}
          /\ calls' = [calls EXCEPT ![i] = AfterCallback(c, "saved", <<Returning("void")>>)]
     ELSE /\ samples' = samples
          /\ calls' = [calls EXCEPT ![i] =
                 AfterCallback(c, "error", <<Throwing(Err("saveFailed", StoreErrorText))>>)]
  /\ UNCHANGED <<available, osVersion16, sleepSamples, workouts, nextUuid, crashed, probe>>

(***************************************************************************)
(* Convenience reads                                                       *)
(***************************************************************************)
\* A results handler that treats an empty result as a failed query.
latestQuantityHandlerThrowsOnEmpty(smpls, error) ==
  IF error # <<>> THEN <<Throwing(Err("queryFailed", error[1]))>>
  ELSE IF smpls = <<>> \/ smpls[1] = <<>>
       THEN <<Throwing(Err("queryFailed", "no sample"))>>
  ELSE <<Returning(<<smpls[1][1].value>>)>>

\* The results handler of getLatestQuantity.
latestQuantityHandler(smpls, error) ==
  IF error # <<>> THEN <<Throwing(Err("queryFailed", error[1]))>>
  ELSE IF smpls = <<>> \/ smpls[1] = <<>> THEN <<Returning(<<>>)>>
  ELSE <<Returning(<<smpls[1][1].value>>)>>

\* The dictionary getQuantitySamples returns for the stored sample s.
QuantityDictionary(s) ==
  [id |-> s.uuid, value |-> s.value, startDate |-> s.startDate, endDate |-> s.endDate]

\* The results handler of getQuantitySamples.
quantitySamplesHandler(smpls, error) ==
  IF error # <<>> THEN <<Throwing(Err("queryFailed", error[1]))>>
  ELSE IF smpls = <<>> THEN <<Returning(<<>>)>>
  ELSE <<Returning([i \in 1..Len(smpls[1]) |-> QuantityDictionary(smpls[1][i])])>>

\* HKCategoryValueSleepAnalysis raw values.
SleepInBed == 0
SleepAsleep == 1
SleepAwake == 2
SleepAsleepCore == 3
SleepAsleepDeep == 4
SleepAsleepREM == 5

\* A classification whose iOS 16 branch reports every other value as core
\* sleep.
sleepStateCoreByDefault(value, os16) ==
  IF os16
  THEN CASE value = SleepAsleepDeep -> "deep"
         [] value = SleepAsleepREM -> "rem"
         [] value = SleepAwake -> "awake"
         [] value = SleepInBed -> "inBed"
         [] OTHER -> "core"
  ELSE CASE value = SleepAsleep -> "asleep"
         [] value = SleepAwake -> "awake"
         [] value = SleepInBed -> "inBed"
         [] OTHER -> "unknown"

\* The stage getSleepSamples reports for a raw category value.
sleepState(value, os16) ==
  IF os16
  THEN CASE value = SleepAsleepCore -> "core"
         [] value = SleepAsleepDeep -> "deep"
         [] value = SleepAsleepREM -> "rem"
         [] value = SleepAwake -> "awake"
         [] value = SleepInBed -> "inBed"
         [] OTHER -> "asleep"
  ELSE CASE value = SleepAsleep -> "asleep"
         [] value = SleepAwake -> "awake"
         [] value = SleepInBed -> "inBed"
         [] OTHER -> "unknown"

\* The dictionary getSleepSamples returns for the stored sample s.
SleepDictionary(s, os16) ==
  [id |-> s.uuid, value |-> sleepState(s.value, os16),
   startDate |-> s.startDate, endDate |-> s.endDate,
   duration |-> s.endDate - s.startDate]

\* The results handler of getSleepSamples.
sleepSamplesHandler(smpls, error, os16) ==
  IF error # <<>> THEN <<Throwing(Err("queryFailed", error[1]))>>
  ELSE IF smpls = <<>> THEN <<Returning(<<>>)>>
  ELSE <<Returning([i \in 1..Len(smpls[1]) |-> SleepDictionary(smpls[1][i], os16)])>>

\* A latest-value read up to healthStore.execute(query). getRestingHeartRate
\* takes a range <<startDate, endDate>>; the others take nothing (<<>>).
getLatest(op, range) ==
  /\ ~crashed
  /\ calls' = Append(calls,
        [NewCall(op, [range |-> range]) EXCEPT !.native = <<"execute">>])
  /\ UNCHANGED <<available, osVersion16, sleepSamples, workouts, samples, nextUuid, crashed, probe>>

\* The store runs the query of getLatestQuantity (no predicate, limit 1, end
\* date descending) and invokes the results handler.
getLatestResults(i, outcome, first) ==
  /\ i \in DOMAIN calls
  /\ calls[i].op \in LatestReads
  /\ IF first THEN Awaiting(i, calls[i].op, "start") ELSE CalledBack(i, calls[i].op)
  /\ Answers(outcome)
  /\ LET c == calls[i] IN
     \E smpls \in IF outcome = "results"
                  THEN { <<q>> : q \in SampleQueryResults(
                                   { s \in samples : s.type = LatestType(c.op) }, 1) }
                  ELSE { <<>> } :
       /\ calls' = [calls EXCEPT ![i] =
              Converted(c, AfterCallback(c, outcome,
                                         latestQuantityHandler(smpls, ErrorOf(outcome))))]
       /\ crashed' = Traps(calls'[i])
  /\ UNCHANGED <<available, osVersion16, sleepSamples, workouts, samples, nextUuid, probe>>

\* A sample read up to healthStore.execute(query).
getSamples(op, startDate, endDate, limit) ==
  /\ ~crashed
  /\ calls' = Append(calls,
        [NewCall(op, [startDate |-> startDate, endDate |-> endDate, limit |-> limit])
           EXCEPT !.native = <<"execute">>])
  /\ UNCHANGED <<available, osVersion16, sleepSamples, workouts, samples, nextUuid, crashed, probe>>

\* The store runs the query of getQuantitySamples and invokes the handler.
getSamplesResults(i, outcome, first) ==
  /\ i \in DOMAIN calls
  /\ calls[i].op \in SampleReads
  /\ IF first THEN Awaiting(i, calls[i].op, "start") ELSE CalledBack(i, calls[i].op)
  /\ Answers(outcome)
  /\ LET c == calls[i] IN
     \E smpls \in IF outcome = "results"
                  THEN { <<q>> : q \in SampleQueryResults(
                                   MatchingSamples(c, SamplesType(c.op)),
                                   OrElse(c.args.limit, HKObjectQueryNoLimit)) }
                  ELSE { <<>> } :
       /\ calls' = [calls EXCEPT ![i] =
              AfterCallback(c, outcome, quantitySamplesHandler(smpls, ErrorOf(outcome)))]
       /\ crashed' = Traps(calls'[i])
  /\ UNCHANGED <<available, osVersion16, sleepSamples, workouts, samples, nextUuid, probe>>

\* getSleepSamples up to healthStore.execute(query).
getSleepSamples(startDate, endDate) ==
  /\ ~crashed
  /\ calls' = Append(calls,
        [NewCall("getSleepSamples", [startDate |-> startDate, endDate |-> endDate])
           EXCEPT !.native = <<"execute">>])
  /\ UNCHANGED <<available, osVersion16, sleepSamples, workouts, samples, nextUuid, crashed, probe>>

\* The store runs the sleep query and invokes the results handler.
getSleepSamplesResults(i, outcome, first) ==
  /\ IF first THEN Awaiting(i, "getSleepSamples", "start")
              ELSE CalledBack(i, "getSleepSamples")
  /\ Answers(outcome)
  /\ LET c == calls[i] IN
     \E smpls \in IF outcome = "results"
                  THEN { <<q>> : q \in SampleQueryResults(
                           { s \in sleepSamples :
                               predicateForSamples(s, c.args.startDate, c.args.endDate) },
                           HKObjectQueryNoLimit) }
                  ELSE { <<>> } :
       /\ calls' = [calls EXCEPT ![i] =
              AfterCallback(c, outcome,
                            sleepSamplesHandler(smpls, ErrorOf(outcome), osVersion16))]
       /\ crashed' = Traps(calls'[i])
  /\ UNCHANGED <<available, osVersion16, sleepSamples, workouts, samples, nextUuid, probe>>

(***************************************************************************)
(* Other writers                                                           *)
(***************************************************************************)
\* The number of records other writers (other apps, devices, earlier
\* sessions) add to the store in one run.
MaxStored == 1

\* The records in the store that no call of this run created.
StoredByOthers ==
  Cardinality({ r \in workouts : r.source = "other" })
  + Cardinality({ r \in samples : r.source = "other" })
  + Cardinality(sleepSamples)

\* Quantity types other writers add samples of: types read by the aggregates,
\* by the latest-value reads and by the sample reads, with and without a unit
\* conversion.
OtherQuantityTypes ==
  { "distanceWalkingRunning", "stepCount", "dietaryWater", "bodyFatPercentage",
    "heartRate", "oxygenSaturation" }

\* Another writer saves a quantity sample.
otherWriterSavesQuantity(type, value, startDate, endDate) ==
  /\ ~crashed /\ available
  /\ samples' = samples \cup
       { [uuid |-> uuidString(nextUuid), source |-> "other", type |-> type,
          value |-> value,
          startDate |-> startDate, endDate |-> endDate] }
  /\ nextUuid' = nextUuid + 1
  /\ UNCHANGED <<available, osVersion16, sleepSamples, workouts, calls, crashed, probe>>

\* Another writer saves a workout; its distance and energy are optional.
otherWriterSavesWorkout(w) ==
  /\ ~crashed /\ available
  /\ workouts' = workouts \cup
       { [w EXCEPT !.uuid = uuidString(nextUuid), !.source = "other"] }
  /\ nextUuid' = nextUuid + 1
  /\ UNCHANGED <<available, osVersion16, sleepSamples, samples, calls, crashed, probe>>

\* Another writer saves a sleep-analysis sample with the raw value given.
otherWriterSavesSleep(value, startDate, endDate) ==
  /\ ~crashed /\ available
  /\ sleepSamples' = sleepSamples \cup
       { [uuid |-> uuidString(nextUuid), source |-> "other", value |-> value,
          startDate |-> startDate, endDate |-> endDate] }
  /\ nextUuid' = nextUuid + 1
  /\ UNCHANGED <<available, osVersion16, workouts, samples, calls, crashed, probe>>

(***************************************************************************)
(* Specifications                                                          *)
(***************************************************************************)
\* A further operation may be entered: fewer than `most` were, and fewer than
\* MaxInFlight are in flight.
MayEnter(most) == Len(calls) < most /\ InFlight < MaxInFlight

\* Spec: the workout life cycle (save, query, delete) against a store that
\* answers as documented.
Next ==
  \/ /\ MayEnter(MaxCalls)
     /\ \/ \E data \in WorkoutInputs : saveWorkout(data)
        \/ \E r \in Ranges, limit \in Limits : queryWorkouts(r[1], r[2], limit)
        \/ \E id \in DeleteIds : deleteWorkout(id)
  \/ \E i \in DOMAIN calls, saved \in BOOLEAN : saveWorkoutReturn(i, saved)
  \/ \E i \in DOMAIN calls, o \in DocumentedOutcomes : queryWorkoutsResults(i, o, TRUE)
  \/ \E i \in DOMAIN calls, o \in DocumentedOutcomes : deleteWorkoutLookup(i, o)
  \/ \E i \in DOMAIN calls, o \in {"deleted", "error"} : deleteWorkoutCompletion(i, o)

Spec == Init /\ [][Next]_vars

\* Inputs of the aggregate and sample specifications.
WholeRange == <<0, 20000>>
OtherDates == { <<5000, 5600>> }
OtherValues == { Rat(1200, 1) }

\* SpecAggregate: saved workouts, distance and energy samples of other
\* writers, and the aggregates over them.
NextAggregate ==
  \/ /\ MayEnter(MaxCalls)
     /\ \/ \E data \in {WorkoutA, WorkoutB} : saveWorkout(data)
        \/ queryWorkouts(WholeRange[1], WholeRange[2], <<>>)
        \/ \E op \in {"getTotalDistance", "getTotalCalories"} :
             getSum(op, WholeRange[1], WholeRange[2])
  \/ /\ StoredByOthers < MaxStored
     /\ \E t \in {"distanceWalkingRunning", "activeEnergyBurned"},
           v \in OtherValues, d \in OtherDates :
          otherWriterSavesQuantity(t, v, d[1], d[2])
  \/ \E i \in DOMAIN calls, saved \in BOOLEAN : saveWorkoutReturn(i, saved)
  \/ \E i \in DOMAIN calls, o \in DocumentedOutcomes : queryWorkoutsResults(i, o, TRUE)
  \/ \E i \in DOMAIN calls, o \in DocumentedOutcomes : getSumResults(i, o, TRUE)

SpecAggregate == Init /\ [][NextAggregate]_vars

\* Inputs of the convenience saves.
SaveValues == { Rat(152, 10), Rat(250, 1) }
SaveDates == { 5000 }

\* SpecWrites: every write operation.
NextWrites ==
  \/ /\ MayEnter(MaxCalls - 1)
     /\ \/ saveWorkout(WorkoutA)
        \/ \E op \in ConvenienceSaves, v \in SaveValues, d \in SaveDates :
             saveQuantity(op, v, d)
        \/ \E d \in SaveDates : saveBloodPressure(Rat(120, 1), Rat(80, 1), d)
  \/ \E i \in DOMAIN calls, saved \in BOOLEAN : saveWorkoutReturn(i, saved)
  \/ \E i \in DOMAIN calls, saved \in BOOLEAN : saveQuantityReturn(i, saved)
  \/ \E i \in DOMAIN calls, saved \in BOOLEAN : saveBloodPressureSystolicReturn(i, saved)
  \/ \E i \in DOMAIN calls, saved \in BOOLEAN : saveBloodPressureDiastolicReturn(i, saved)

SpecWrites == Init /\ [][NextWrites]_vars

\* A workout of another writer, without distance and energy.
OtherWorkout ==
  [uuid |-> uuidString(0), source |-> "other", workoutActivityType |-> "dance",
   startDate |-> AtSecond(5000), endDate |-> AtSecond(5600), duration |-> Whole(600),
   totalEnergyBurned |-> <<>>, totalDistance |-> <<>>]

\* The ids of the stored workouts (a caller learns them from queries), an id
\* never given out and the README's placeholder.
KnownIds == { w.uuid : w \in workouts } \cup { uuidString(15), S_workout_uuid }

\* SpecReads: every query, aggregate and delete operation over records other
\* writers left in the store; the store may answer with an error, with
\* results, or with neither.
NextReads ==
  \/ /\ MayEnter(MaxCalls - 2)
     /\ \/ queryWorkouts(WholeRange[1], WholeRange[2], <<>>)
        \/ \E op \in Aggregates : getSum(op, WholeRange[1], WholeRange[2])
        \/ \E op \in LatestReads :
             getLatest(op, IF op = "getRestingHeartRate" THEN WholeRange ELSE <<>>)
        \/ \E op \in SampleReads : getSamples(op, WholeRange[1], WholeRange[2], <<>>)
        \/ getSleepSamples(WholeRange[1], WholeRange[2])
        \/ \E id \in KnownIds : deleteWorkout(id)
  \/ /\ StoredByOthers < MaxStored
     /\ \/ \E t \in OtherQuantityTypes, v \in OtherValues, d \in OtherDates :
             otherWriterSavesQuantity(t, v, d[1], d[2])
        \/ otherWriterSavesWorkout(OtherWorkout)
        \/ \E v \in {SleepAsleep, SleepAsleepCore}, d \in OtherDates :
             otherWriterSavesSleep(v, d[1], d[2])
  \/ \E i \in DOMAIN calls, o \in AllOutcomes : queryWorkoutsResults(i, o, TRUE)
  \/ \E i \in DOMAIN calls, o \in AllOutcomes : getSumResults(i, o, TRUE)
  \/ \E i \in DOMAIN calls, o \in AllOutcomes : getLatestResults(i, o, TRUE)
  \/ \E i \in DOMAIN calls, o \in AllOutcomes : getSamplesResults(i, o, TRUE)
  \/ \E i \in DOMAIN calls, o \in AllOutcomes : getSleepSamplesResults(i, o, TRUE)
  \/ \E i \in DOMAIN calls, o \in AllOutcomes : deleteWorkoutLookup(i, o)
  \/ \E i \in DOMAIN calls, o \in {"deleted", "error", "refused"} :
       deleteWorkoutCompletion(i, o)

\* The sleep stages exist from iOS 16 on; the reads run on either system.
InitReads == InitStore /\ osVersion16 \in BOOLEAN

SpecReads == InitReads /\ [][NextReads]_vars

\* SpecRepeat: queries and aggregates against a store that may invoke a
\* callback it has invoked before.
NextRepeat ==
  \/ /\ MayEnter(MaxCalls - 1)
     /\ \/ saveWorkout(WorkoutA)
        \/ \E r \in Ranges : queryWorkouts(r[1], r[2], <<>>)
        \/ \E op \in {"getTotalDistance", "getSteps"} :
             getSum(op, WholeRange[1], WholeRange[2])
  \/ \E i \in DOMAIN calls, saved \in BOOLEAN : saveWorkoutReturn(i, saved)
  \/ \E i \in DOMAIN calls, o \in DocumentedOutcomes, first \in BOOLEAN :
       queryWorkoutsResults(i, o, first)
  \/ \E i \in DOMAIN calls, o \in DocumentedOutcomes, first \in BOOLEAN :
       getSumResults(i, o, first)

SpecRepeat == Init /\ [][NextRepeat]_vars

\* Identifiers handed to requestAuthorization and parseDataType.
S_Steps == <<"S","t","e","p","s">>
S_heartRate == <<"h","e","a","r","t","R","a","t","e">>
S_Workout == <<"W","o","r","k","o","u","t">>
S_BMI == <<"B","M","I">>
S_bogus == <<"b","o","g","u","s">>
S_Step == <<"S","t","e","p">>

\* Lists of identifiers, with and without unrecognized ones.
AuthLists ==
  { <<>>, <<S_Steps, S_heartRate>>, <<S_bogus>>, <<S_Workout, S_bogus, S_BMI>> }

\* SpecAuth: authorization requests.
NextAuth ==
  \/ /\ MayEnter(MaxCalls - 1)
     /\ \E readTypes \in AuthLists, writeTypes \in AuthLists :
          requestAuthorization(readTypes, writeTypes)
  \/ \E i \in DOMAIN calls, granted \in BOOLEAN : requestAuthorizationReturn(i, granted)

SpecAuth == Init /\ [][NextAuth]_vars

\* The first letter in lower case, as a caller used to camelCase writes it.
lowerFirst(s) == [k \in DOMAIN s |-> IF k = 1 THEN lowerChar(s[k]) ELSE s[k]]

\* The identifiers parseDataType is applied to: every public DataType value
\* as listed, in lower case, in upper case and with a lower-case first letter,
\* and identifiers outside the list.
PublicDataTypes == UNION DataTypeAliases
ResolveInputs ==
  PublicDataTypes
  \cup { lowercased(s) : s \in PublicDataTypes }
  \cup { uppercased(s) : s \in PublicDataTypes }
  \cup { lowerFirst(s) : s \in PublicDataTypes }
  \cup { S_bogus, S_Step, <<>> }

\* The bridge hands an identifier to parseDataType.
resolveDataType ==
  /\ probe.fn = "parseDataType"
  /\ probe.out = <<>>
  /\ probe' = [probe EXCEPT !.out = <<parseDataType(probe.arg[1])>>]
  /\ UNCHANGED <<available, workouts, samples, calls, nextUuid, crashed, osVersion16,
                 sleepSamples>>

InitResolve ==
  /\ available \in BOOLEAN
  /\ workouts = {} /\ samples = {} /\ sleepSamples = {}
  /\ calls = <<>> /\ nextUuid = 0 /\ crashed = FALSE /\ osVersion16 = TRUE
  /\ \E s \in ResolveInputs : probe = [fn |-> "parseDataType", arg |-> <<s>>, out |-> <<>>]

NextResolve == resolveDataType

SpecResolve == InitResolve /\ [][NextResolve]_vars

\* Inputs of the unit round trips: 15.2 at one timestamp and, at a later one,
\* a value that the two roundings of its round trip do not give back (7 as a
\* body-fat percentage, 1003 as milliliters of water), read over everything
\* and over a range that excludes the earlier one.
RoundTripInputs(op) ==
  { <<Rat(152, 10), 5000>>,
    <<IF op = "saveBodyFat" THEN Rat(7, 1) ELSE Rat(1003, 1), 6000>> }
RoundTripRanges == { WholeRange, <<5500, 20000>> }

\* SpecRoundTrip: body fat and water written by this manager and read back.
NextRoundTrip ==
  \/ /\ MayEnter(MaxCalls)
     /\ \/ \E op \in {"saveBodyFat", "saveWater"} :
             \E in \in RoundTripInputs(op) : saveQuantity(op, in[1], in[2])
        \/ getLatest("getLatestBodyFat", <<>>)
        \/ \E r \in RoundTripRanges : getSum("getWaterIntake", r[1], r[2])
  \/ \E i \in DOMAIN calls, saved \in BOOLEAN : saveQuantityReturn(i, saved)
  \/ \E i \in DOMAIN calls, o \in DocumentedOutcomes : getLatestResults(i, o, TRUE)
  \/ \E i \in DOMAIN calls, o \in DocumentedOutcomes : getSumResults(i, o, TRUE)

SpecRoundTrip == Init /\ [][NextRoundTrip]_vars

\* The raw values of the legacy scheme and of the five-stage scheme.
LegacySleepValues == { SleepInBed, SleepAsleep, SleepAwake }
StageSleepValues == { SleepAsleepCore, SleepAsleepDeep, SleepAsleepREM }

\* SpecSleep: sleep samples of either scheme, read on either system.
NextSleep ==
  \/ /\ StoredByOthers < MaxStored
     /\ \E v \in LegacySleepValues \cup StageSleepValues, d \in OtherDates :
          otherWriterSavesSleep(v, d[1], d[2])
  \/ /\ MayEnter(MaxCalls - 1)
     /\ getSleepSamples(WholeRange[1], WholeRange[2])
  \/ \E i \in DOMAIN calls, o \in DocumentedOutcomes : getSleepSamplesResults(i, o, TRUE)

SpecSleep == InitReads /\ [][NextSleep]_vars

\* The range the range reads ask for, and the start and end times of the
\* stored records: starting before it and ending inside, starting at its
\* start, starting inside and ending after it, starting at its end.
ReadRange == <<5000, 6000>>
RangeDates == { <<4000, 5500>>, <<5000, 5000>>, <<5999, 7000>>, <<6000, 6500>> }

\* SpecRange: records of other writers around a range, and the reads over it.
NextRange ==
  \/ /\ StoredByOthers < MaxStored + 1
     /\ \E d \in RangeDates :
          \/ otherWriterSavesWorkout([OtherWorkout EXCEPT !.startDate = AtSecond(d[1]),
                                                          !.endDate = AtSecond(d[2]),
                                                          !.duration = Whole(d[2] - d[1])])
          \/ \E t \in {"heartRate", "stepCount"}, v \in OtherValues :
               otherWriterSavesQuantity(t, v, d[1], d[2])
          \/ otherWriterSavesSleep(SleepAsleep, d[1], d[2])
  \/ /\ MayEnter(MaxCalls - 2)
     /\ \/ queryWorkouts(ReadRange[1], ReadRange[2], <<>>)
        \/ getSamples("getHeartRateSamples", ReadRange[1], ReadRange[2], <<>>)
        \/ getSleepSamples(ReadRange[1], ReadRange[2])
        \/ getSum("getSteps", ReadRange[1], ReadRange[2])
  \/ \E i \in DOMAIN calls, o \in DocumentedOutcomes : queryWorkoutsResults(i, o, TRUE)
  \/ \E i \in DOMAIN calls, o \in DocumentedOutcomes : getSamplesResults(i, o, TRUE)
  \/ \E i \in DOMAIN calls, o \in DocumentedOutcomes : getSleepSamplesResults(i, o, TRUE)
  \/ \E i \in DOMAIN calls, o \in DocumentedOutcomes : getSumResults(i, o, TRUE)

SpecRange == Init /\ [][NextRange]_vars

\* The limits handed to the limited reads: none, 1 and 2; and the times of
\* the stored records, two of them ending together.
ReadLimits == { <<>>, <<0>>, <<1>>, <<2>> }
LimitDates == { <<5000, 5300>>, <<5200, 5300>>, <<5400, 5500>> }

\* SpecLimit: records of other writers and the reads that take a limit.
NextLimit ==
  \/ /\ StoredByOthers < MaxStored + 1
     /\ \E d \in LimitDates :
          \/ otherWriterSavesWorkout([OtherWorkout EXCEPT !.startDate = AtSecond(d[1]),
                                                          !.endDate = AtSecond(d[2]),
                                                          !.duration = Whole(d[2] - d[1])])
          \/ \E t \in {"heartRate", "oxygenSaturation"}, v \in OtherValues :
               otherWriterSavesQuantity(t, v, d[1], d[2])
  \/ /\ MayEnter(MaxCalls - 2)
     /\ \E limit \in ReadLimits :
          \/ queryWorkouts(WholeRange[1], WholeRange[2], limit)
          \/ \E op \in SampleReads : getSamples(op, WholeRange[1], WholeRange[2], limit)
  \/ \E i \in DOMAIN calls, o \in DocumentedOutcomes : queryWorkoutsResults(i, o, TRUE)
  \/ \E i \in DOMAIN calls, o \in DocumentedOutcomes : getSamplesResults(i, o, TRUE)

SpecLimit == Init /\ [][NextLimit]_vars

\* SpecFailures: one operation of every kind against a store that may fail
\* each request.
NextFailures ==
  \/ /\ MayEnter(MaxCalls - 2)
     /\ \/ requestAuthorization(<<S_Steps, S_bogus>>, <<S_Workout>>)
        \/ saveWorkout(WorkoutA)
        \/ \E v \in SaveValues, d \in SaveDates : saveQuantity("saveWeight", v, d)
        \/ \E d \in SaveDates : saveBloodPressure(Rat(120, 1), Rat(80, 1), d)
        \/ queryWorkouts(WholeRange[1], WholeRange[2], <<>>)
        \/ \E op \in {"getTotalDistance", "getSteps"} :
             getSum(op, WholeRange[1], WholeRange[2])
        \/ getLatest("getLatestWeight", <<>>)
        \/ getSamples("getHeartRateSamples", WholeRange[1], WholeRange[2], <<>>)
        \/ getSleepSamples(WholeRange[1], WholeRange[2])
        \/ \E id \in KnownIds : deleteWorkout(id)
  \/ /\ StoredByOthers < MaxStored
     /\ otherWriterSavesWorkout(OtherWorkout)
  \/ \E i \in DOMAIN calls, granted \in BOOLEAN : requestAuthorizationReturn(i, granted)
  \/ \E i \in DOMAIN calls, saved \in BOOLEAN : saveWorkoutReturn(i, saved)
  \/ \E i \in DOMAIN calls, saved \in BOOLEAN : saveQuantityReturn(i, saved)
  \/ \E i \in DOMAIN calls, saved \in BOOLEAN : saveBloodPressureSystolicReturn(i, saved)
  \/ \E i \in DOMAIN calls, saved \in BOOLEAN : saveBloodPressureDiastolicReturn(i, saved)
  \/ \E i \in DOMAIN calls, o \in DocumentedOutcomes : queryWorkoutsResults(i, o, TRUE)
  \/ \E i \in DOMAIN calls, o \in DocumentedOutcomes : getSumResults(i, o, TRUE)
  \/ \E i \in DOMAIN calls, o \in DocumentedOutcomes : getLatestResults(i, o, TRUE)
  \/ \E i \in DOMAIN calls, o \in DocumentedOutcomes : getSamplesResults(i, o, TRUE)
  \/ \E i \in DOMAIN calls, o \in DocumentedOutcomes : getSleepSamplesResults(i, o, TRUE)
  \/ \E i \in DOMAIN calls, o \in DocumentedOutcomes : deleteWorkoutLookup(i, o)
  \/ \E i \in DOMAIN calls, o \in {"deleted", "error", "refused"} :
       deleteWorkoutCompletion(i, o)

SpecFailures == Init /\ [][NextFailures]_vars

\* The activity types the README and the two ActivityType declarations list.
SupportedActivityTypes ==
  { <<"r","u","n","n","i","n","g">>,
    <<"w","a","l","k","i","n","g">>,
    <<"c","y","c","l","i","n","g">>,
    <<"h","i","k","i","n","g">>,
    <<"s","w","i","m","m","i","n","g">>,
    <<"y","o","g","a">>,
    <<"d","a","n","c","e">>,
    <<"b","a","s","k","e","t","b","a","l","l">>,
    <<"s","o","c","c","e","r">>,
    <<"t","e","n","n","i","s">>,
    <<"f","u","n","c","t","i","o","n","a","l","S","t","r","e","n","g","t","h","T","r","a","i","n","i","n","g">>,
    <<"t","r","a","d","i","t","i","o","n","a","l","S","t","r","e","n","g","t","h","T","r","a","i","n","i","n","g">>,
    <<"e","l","l","i","p","t","i","c","a","l">>,
    <<"r","o","w","i","n","g">>,
    <<"o","t","h","e","r">> }

\* The fields saveWorkout requires.
RequiredWorkoutFields == { "startDate", "endDate", "duration", "distance", "calories" }

\* The example workout without the field k, and with the activity type t.
WithoutField(k) == [f \in (DOMAIN WorkoutA) \ {k} |-> WorkoutA[f]]
WithActivity(t) == [WorkoutA EXCEPT !.activityType = Str(t)]

\* Malformed inputs of saveWorkout, each required field missing and a
\* distance that is no number, next to the two well-formed examples.
SaveWorkoutInputs ==
  { WithoutField(k) : k \in RequiredWorkoutFields }
  \cup { [WorkoutA EXCEPT !.distance = Str(<<"5","k","m">>)], WorkoutA, WorkoutB }

\* SpecSaveWorkout: saveWorkout over well-formed and malformed inputs, next
\* to the workouts of other writers.
NextSaveWorkout ==
  \/ /\ MayEnter(MaxCalls - 1)
     /\ \E data \in SaveWorkoutInputs : saveWorkout(data)
  \/ /\ StoredByOthers < MaxStored
     /\ otherWriterSavesWorkout(OtherWorkout)
  \/ \E i \in DOMAIN calls, saved \in BOOLEAN : saveWorkoutReturn(i, saved)

SpecSaveWorkout == Init /\ [][NextSaveWorkout]_vars

\* Activity types given to saveWorkout: names parseActivityType lists, names
\* only the README and the older ActivityType list, a name in upper case and
\* a name listed nowhere.
ActivityInputs ==
  { <<"f","u","n","c","t","i","o","n","a","l","S","t","r","e","n","g","t","h","T","r","a","i","n","i","n","g">>,
    <<"d","a","n","c","e">>,
    <<"t","e","n","n","i","s">>,
    <<"R","U","N","N","I","N","G">>,
    <<"z","u","m","b","a">> }

\* SpecActivity: saveWorkout with and without an activity type, workouts of
\* other writers whose activity has no name here, and queryWorkouts.
NextActivity ==
  \/ /\ MayEnter(MaxCalls - 1)
     /\ \/ \E t \in ActivityInputs : saveWorkout(WithActivity(t))
        \/ saveWorkout(WithoutField("activityType"))
        \/ queryWorkouts(WholeRange[1], WholeRange[2], <<>>)
  \/ /\ StoredByOthers < MaxStored
     /\ otherWriterSavesWorkout(OtherWorkout)
  \/ \E i \in DOMAIN calls, saved \in BOOLEAN : saveWorkoutReturn(i, saved)
  \/ \E i \in DOMAIN calls, o \in DocumentedOutcomes : queryWorkoutsResults(i, o, TRUE)

SpecActivity == Init /\ [][NextActivity]_vars

\* Samples other writers leave for the latest-value reads: an earlier and a
\* later one, of three kinds.
LatestKinds == { "restingHeartRate", "bodyMass", "bodyFatPercentage" }
LatestSamples == { <<Rat(60, 1), 4000, 4100>>, <<Rat(3, 10), 7000, 7100>> }

\* Ranges given to getRestingHeartRate: one that holds neither sample and one
\* that holds the later one.
RestingRanges == { <<5000, 6000>>, <<6500, 8000>> }

\* SpecLatest: the latest-value reads over samples of their own and of other
\* kinds.
NextLatest ==
  \/ /\ MayEnter(MaxCalls - 2)
     /\ \/ \E op \in LatestReads \ {"getRestingHeartRate"} : getLatest(op, <<>>)
        \/ \E r \in RestingRanges : getLatest("getRestingHeartRate", r)
  \/ /\ StoredByOthers < MaxStored + 1
     /\ \E k \in LatestKinds, v \in LatestSamples :
          otherWriterSavesQuantity(k, v[1], v[2], v[3])
  \/ \E i \in DOMAIN calls, o \in DocumentedOutcomes : getLatestResults(i, o, TRUE)

SpecLatest == Init /\ [][NextLatest]_vars

\* Ranges read in SpecStore: everything, and a range that begins after the
\* start of the workouts this manager saves.
StoreRanges == { WholeRange, <<4000, 20000>> }

\* SpecStore: one workout input saved, possibly several times, workouts of
\* other writers, deletes of stored and of unknown ids, and queries, in every
\* interleaving.
NextStore ==
  \/ /\ MayEnter(MaxCalls - 1)
     /\ \/ saveWorkout(WorkoutA)
        \/ \E r \in StoreRanges : queryWorkouts(r[1], r[2], <<>>)
        \/ \E id \in { w.uuid : w \in workouts } \cup { uuidString(15) } :
             deleteWorkout(id)
  \/ /\ StoredByOthers < MaxStored
     /\ otherWriterSavesWorkout(OtherWorkout)
  \/ \E i \in DOMAIN calls, saved \in BOOLEAN : saveWorkoutReturn(i, saved)
  \/ \E i \in DOMAIN calls, o \in DocumentedOutcomes : queryWorkoutsResults(i, o, TRUE)
  \/ \E i \in DOMAIN calls, o \in DocumentedOutcomes : deleteWorkoutLookup(i, o)
  \/ \E i \in DOMAIN calls, o \in {"deleted", "error", "refused"} :
       deleteWorkoutCompletion(i, o)

SpecStore == Init /\ [][NextStore]_vars

\* Ranges around the workouts of the 1970s and around the one of 2001, and
\* the first three seconds.
DateRanges == { <<0, 20000>>, <<999999999, 1000003601>>, <<0, 3>> }

\* SpecDates: workouts saved with times of every kind and queried.
NextDates ==
  \/ /\ MayEnter(MaxCalls - 1)
     /\ \/ \E data \in {WorkoutA, WorkoutB, WorkoutC, WorkoutD, WorkoutE} :
             saveWorkout(data)
        \/ \E r \in DateRanges : queryWorkouts(r[1], r[2], <<>>)
  \/ \E i \in DOMAIN calls, saved \in BOOLEAN : saveWorkoutReturn(i, saved)
  \/ \E i \in DOMAIN calls, o \in DocumentedOutcomes : queryWorkoutsResults(i, o, TRUE)

SpecDates == Init /\ [][NextDates]_vars

\* A Date at the whole second s.
DateAt(s) == [t |-> "date", ms |-> s * 1000]

\* Options given to queryWorkouts: none, bounds as Dates and as numbers, a
\* limit, and Dates two milliseconds after the start of one stored workout
\* and half a second after the start of another.
OptionInputs ==
  { <<>>,
    [startDate |-> DateAt(5500)],
    [startDate |-> Num(5500)],
    [endDate |-> DateAt(5500)],
    [startDate |-> Num(4000), endDate |-> Num(5500), limit |-> Num(1)],
    [startDate |-> [t |-> "date", ms |-> 200002],
     endDate |-> [t |-> "date", ms |-> 7000500]] }

\* Clock readings, and workouts of other writers that start before the first
\* reading, between the two, and after both: one without distance and energy,
\* one without energy, one without distance; and a workout that starts at
\* 200 + 16777/2^23, the time a Date makes of 200.002, which is a little
\* before 200.002.
ClockReadings == { 6000, 8000 }
OptionWorkouts ==
  { [OtherWorkout EXCEPT !.startDate = AtSecond(200), !.endDate = AtSecond(800)],
    [OtherWorkout EXCEPT !.startDate = Mixed(200, 16777, 2^DatePlaces),
                         !.endDate = AtSecond(900)],
    [OtherWorkout EXCEPT !.startDate = AtSecond(7000), !.endDate = AtSecond(7600),
                         !.totalDistance = <<Whole(3000)>>],
    [OtherWorkout EXCEPT !.startDate = AtSecond(9000), !.endDate = AtSecond(9600),
                         !.totalEnergyBurned = <<Whole(200)>>] }

\* SpecOptions: the public queryWorkouts with its optional bounds over
\* workouts of other writers.
NextOptions ==
  \/ /\ MayEnter(MaxCalls - 2)
     /\ \E options \in OptionInputs, now \in ClockReadings :
          queryWorkoutsWithOptions(options, now)
  \/ /\ StoredByOthers < MaxStored + 1
     /\ \E w \in OptionWorkouts : otherWriterSavesWorkout(w)
  \/ \E i \in DOMAIN calls, o \in DocumentedOutcomes : queryWorkoutsResults(i, o, TRUE)

SpecOptions == Init /\ [][NextOptions]_vars

\* SpecTwice: the same workout input saved several times, concurrently or one
\* after the other, and queried.
NextTwice ==
  \/ /\ MayEnter(MaxCalls)
     /\ \/ saveWorkout(WorkoutA)
        \/ \E r \in StoreRanges : queryWorkouts(r[1], r[2], <<>>)
  \/ \E i \in DOMAIN calls, saved \in BOOLEAN : saveWorkoutReturn(i, saved)
  \/ \E i \in DOMAIN calls, o \in DocumentedOutcomes : queryWorkoutsResults(i, o, TRUE)

SpecTwice == Init /\ [][NextTwice]_vars

\* Ranges of concurrent reads, and sample dates inside one of them each.
ConcurrentRanges == { <<4000, 5000>>, <<5000, 6000>> }
ConcurrentDates == { <<4500, 4600>>, <<5500, 5600>> }

\* SpecConcurrent: sample reads and sums over different ranges in flight at
\* once, answered by the store in any order, while other writers add samples.
NextConcurrent ==
  \/ /\ MayEnter(MaxCalls - 1)
     /\ \E r \in ConcurrentRanges :
          \/ getSamples("getHeartRateSamples", r[1], r[2], <<>>)
          \/ getSum("getSteps", r[1], r[2])
  \/ /\ StoredByOthers < MaxStored + 1
     /\ \E d \in ConcurrentDates, t \in {"heartRate", "stepCount"}, v \in OtherValues :
          otherWriterSavesQuantity(t, v, d[1], d[2])
  \/ \E i \in DOMAIN calls, o \in DocumentedOutcomes : getSamplesResults(i, o, TRUE)
  \/ \E i \in DOMAIN calls, o \in DocumentedOutcomes : getSumResults(i, o, TRUE)

SpecConcurrent == Init /\ [][NextConcurrent]_vars

\* The store calls back for a request of call i.
StoreCallsBack(i) ==
  \/ \E o \in DocumentedOutcomes : getSumResults(i, o, TRUE)
  \/ \E o \in DocumentedOutcomes : deleteWorkoutLookup(i, o)
  \/ \E o \in {"deleted", "error", "refused"} : deleteWorkoutCompletion(i, o)

\* SpecLive: getTotalDistance and deleteWorkout against a store that calls
\* back, sooner or later, for every request it was given.
NextLive ==
  \/ /\ MayEnter(MaxCalls - 1)
     /\ \/ getSum("getTotalDistance", WholeRange[1], WholeRange[2])
        \/ \E id \in { w.uuid : w \in workouts } \cup { uuidString(15) } :
             deleteWorkout(id)
  \/ /\ StoredByOthers < MaxStored
     /\ otherWriterSavesWorkout(OtherWorkout)
  \/ \E i \in DOMAIN calls : StoreCallsBack(i)

SpecLive ==
  /\ Init
  /\ [][NextLive]_vars
  /\ \A i \in 1..MaxCalls : WF_vars(StoreCallsBack(i))

(***************************************************************************)
(* Properties                                                              *)
(***************************************************************************)
\* Call i has left its operation, with a value or an error.
Completed(cs, i) == i \in DOMAIN cs /\ cs[i].status # "pending"

\* Call i leaves its operation in this step.
CompletesNow(i) == Completed(calls', i) /\ ~Completed(calls, i)

\* The stage call i was in before this step ("start" for a call entered now).
StageBefore(i) == IF i \in DOMAIN calls THEN calls[i].stage ELSE "start"

\* The activity names of the ActivityType type that parseActivityType lists.
RecognizedActivityTypes ==
  { <<"r","u","n","n","i","n","g">>, <<"w","a","l","k","i","n","g">>,
    <<"c","y","c","l","i","n","g">>, <<"s","w","i","m","m","i","n","g">>,
    <<"h","i","k","i","n","g">>, <<"y","o","g","a">>,
    <<"f","u","n","c","t","i","o","n","a","l","S","t","r","e","n","g","t","h",
      "T","r","a","i","n","i","n","g">>,
    <<"t","r","a","d","i","t","i","o","n","a","l","S","t","r","e","n","g","t","h",
      "T","r","a","i","n","i","n","g">>,
    <<"e","l","l","i","p","t","i","c","a","l">>, <<"r","o","w","i","n","g">>,
    <<"o","t","h","e","r">> }

\* Call i is a successful saveWorkout whose input names a recognized activity.
SavedRecognized(cs, i) ==
  /\ i \in DOMAIN cs
  /\ cs[i].op = "saveWorkout"
  /\ cs[i].status = "success"
  /\ asString(cs[i].args, "activityType") # <<>>
  /\ asString(cs[i].args, "activityType")[1] \in RecognizedActivityTypes

\* The number the input of save call c gives under key k, as a fraction.
Given(c, k) == IF c.args[k].t = "num" THEN Whole(c.args[k].v) ELSE c.args[k].v

\* The time x is the Double nearest to the fraction t, of which 30 binary
\* places are looked at and what lies beyond them must round away.
IsTheDouble(x, t) ==
  LET whole == t.num \div t.den
      kept == IF t.num = 0 THEN 1 ELSE PlacesKept(t)
      places == IF kept > 30 THEN 30 ELSE kept
      more == IF kept - places > 30 THEN 30 ELSE kept - places
      first == BinaryPlaces(t.num % t.den, t.den, places)
      beyond == RoundedPlaces(first.remainder, t.den, more)
  IN IF more = 0
     THEN x = Mixed(whole, RoundedPlaces(t.num % t.den, t.den, places), 2^places)
     ELSE \/ beyond = 0 /\ x = Mixed(whole, first.quotient, 2^places)
          \/ beyond = 2^more /\ x = Mixed(whole, first.quotient + 1, 2^places)

\* Dates from this second on are held by a Date as finely as by the Double
\* they come as: they are less than 2^(the binary digits of
\* timeIntervalBetween1970AndReferenceDate, less one) s from 2001.
FineDatesFrom ==
  timeIntervalBetween1970AndReferenceDate
    - 2^(BinaryDigits(timeIntervalBetween1970AndReferenceDate) - 1)

\* The time x is the number t as a Date holds it: t itself from FineDatesFrom
\* on; before that t itself when t is a multiple of 2^-DatePlaces s, and
\* otherwise one of the two such multiples around t.
HeldAsDate(x, t) ==
  IF t.num \div t.den >= FineDatesFrom THEN IsTheDouble(x, t)
  ELSE LET places == BinaryPlaces(t.num % t.den, t.den, DatePlaces)
           below == Mixed(t.num \div t.den, places.quotient, 2^DatePlaces)
           above == Mixed(t.num \div t.den, places.quotient + 1, 2^DatePlaces)
       IN IF places.remainder = 0 THEN x = below ELSE x \in {below, above}

\* The record r carries the id that save call c returned and the activity
\* type, duration, distance and calories of its input.
CarriesSaved(r, c) ==
  /\ DOMAIN r = {"id", "activityType", "startDate", "endDate", "duration",
                 "distance", "calories"}
  /\ r.id = c.value[1]
  /\ r.activityType = c.args.activityType.v
  /\ r.duration = Given(c, "duration")
  /\ r.distance = Given(c, "distance")
  /\ r.calories = Given(c, "calories")

\* Call q is a queryWorkouts whose range contains the start of save call i's
\* workout.
RangeContains(cs, q, i) ==
  /\ ~Before(Exactly(Given(cs[i], "startDate")), AtSecond(cs[q].args.startDate))
  /\ Before(Exactly(Given(cs[i], "startDate")), AtSecond(cs[q].args.endDate))

\* The end of the range of queryWorkouts call q is after the start of save
\* call i's workout as a Date holds it at the latest: from FineDatesFrom on
\* the start itself, before that the first multiple of 2^-DatePlaces s that
\* is not before the start.
RangeContainsHeld(cs, q, i) ==
  LET t == Given(cs[i], "startDate")
      places == BinaryPlaces(t.num % t.den, t.den, DatePlaces)
      above == Mixed(t.num \div t.den,
                     IF places.remainder = 0 THEN places.quotient
                     ELSE places.quotient + 1,
                     2^DatePlaces)
  IN \/ t.num \div t.den >= FineDatesFrom
     \/ Before(above, AtSecond(cs[q].args.endDate))

\* In this step queryWorkouts call q completes successfully over a range that
\* contains the start of the workout saved by the successful saveWorkout call
\* i with a recognized activityType, that workout being stored and the only
\* stored workout the query matches.
RoundTripCompletes(q, i) ==
  /\ CompletesNow(q)
  /\ calls'[q].op = "queryWorkouts"
  /\ calls'[q].status = "success"
  /\ SavedRecognized(calls, i)
  /\ RangeContains(calls', q, i)
  /\ \E w \in workouts : w.uuid = calls[i].value[1]
  /\ \A w \in MatchingWorkouts(calls'[q]) : w.uuid = calls[i].value[1]

\* C1 as stated: save/query round trip. The result of such a query is
\* exactly one record, whose id is the non-empty id saveWorkout returned and
\* whose startDate, endDate, duration, distance, calories and activityType
\* equal the saved values.
C1_Original ==
  [][\A q \in DOMAIN calls', i \in DOMAIN calls :
       RoundTripCompletes(q, i)
       => /\ Len(calls'[q].value[1]) = 1
          /\ CarriesSaved(calls'[q].value[1][1], calls[i])
          /\ IsTheDouble(calls'[q].value[1][1].startDate, Given(calls[i], "startDate"))
          /\ IsTheDouble(calls'[q].value[1][1].endDate, Given(calls[i], "endDate"))
          /\ Len(calls[i].value[1]) > 0]_vars

\* C1, amended: save/query round trip. The result of such a query, when its
\* range also contains the start as a Date holds it at the latest (for a
\* start before second 441436288, 28 December 1983, the first multiple of
\* 2^-23 s not before it), is exactly one record, whose id is the non-empty
\* id saveWorkout returned, whose duration, distance, calories and
\* activityType equal the saved values, and whose startDate and endDate are
\* the saved values as a Date holds them: equal to the saved value when that
\* is a multiple of 2^-23 s or not before second 441436288, and otherwise one
\* of the two multiples of 2^-23 s around the saved value.
C1_SaveQueryRoundTrip ==
  [][\A q \in DOMAIN calls', i \in DOMAIN calls :
       RoundTripCompletes(q, i) /\ RangeContainsHeld(calls', q, i)
       => /\ Len(calls'[q].value[1]) = 1
          /\ CarriesSaved(calls'[q].value[1][1], calls[i])
          /\ HeldAsDate(calls'[q].value[1][1].startDate, Given(calls[i], "startDate"))
          /\ HeldAsDate(calls'[q].value[1][1].endDate, Given(calls[i], "endDate"))
          /\ Len(calls[i].value[1]) > 0]_vars

\* Witness of C1: a saveWorkout of the workout that starts at 200.001
\* succeeded, and a later queryWorkouts over a range around it returned one
\* record carrying its id, distance and calories, whose startDate is
\* 200 + 8389/2^23, the multiple of 2^-23 s above 200.001.
C1_Witness ==
  \E i, q \in DOMAIN calls :
    /\ i < q
    /\ SavedRecognized(calls, i)
    /\ calls[i].args = WorkoutC
    /\ calls[q].op = "queryWorkouts"
    /\ calls[q].status = "success"
    /\ calls[q].args.startDate = 0 /\ calls[q].args.endDate = 20000
    /\ Len(calls[q].value[1]) = 1
    /\ CarriesSaved(calls[q].value[1][1], calls[i])
    /\ calls[q].value[1][1].startDate = Mixed(200, 8389, 2^DatePlaces)
    /\ Before(Exactly(Rat(200001, 1000)), calls[q].value[1][1].startDate)
    /\ calls[q].value[1][1].endDate = Mixed(3800, 8389, 2^DatePlaces)

\* A second reachable state of C1: the workout that starts 2^-25 s before
\* second 3 was saved and is stored with the start 3, and a later
\* queryWorkouts over the seconds 0 to 3, which contain the start saved,
\* returned no record.
C1_RangeEnd ==
  \E i, q \in DOMAIN calls :
    /\ i < q
    /\ SavedRecognized(calls, i)
    /\ calls[i].args = WorkoutE
    /\ \E w \in workouts : w.uuid = calls[i].value[1] /\ w.startDate = AtSecond(3)
    /\ calls[q].op = "queryWorkouts"
    /\ calls[q].status = "success"
    /\ RangeContains(calls, q, i)
    /\ calls[q].args.endDate = 3
    /\ Len(calls[q].value[1]) = 0

\* Call d is a deleteWorkout of the id that save call i returned.
DeletesSaved(cs, d, i) ==
  /\ cs[d].op = "deleteWorkout"
  /\ cs[i].op = "saveWorkout"
  /\ cs[i].status = "success"
  /\ UUIDFromString(cs[d].args.id) = <<cs[i].value[1]>>

\* C2: deleteWorkout with the id a successful saveWorkout returned succeeds
\* (when the store reports no error and no other deleteWorkout was given the
\* same id), and every queryWorkouts that completes after a successful
\* deleteWorkout(id) returns no record with that id.
C2_DeleteThenQuery ==
  [][/\ \A d \in DOMAIN calls', i \in DOMAIN calls :
          ( /\ CompletesNow(d)
            /\ DeletesSaved(calls', d, i)
            /\ \A k \in 1..Len(calls'[d].answers) : calls'[d].answers[k] # "error"
            /\ \A e \in DOMAIN calls' :
                 (e # d /\ calls'[e].op = "deleteWorkout")
                   => calls'[e].args.id # calls'[d].args.id )
          => /\ calls'[d].status = "success"
             /\ \A w \in workouts' : w.uuid # calls[i].value[1]
     /\ \A q \in DOMAIN calls', d \in DOMAIN calls :
          ( /\ CompletesNow(q)
            /\ calls'[q].op = "queryWorkouts"
            /\ calls'[q].status = "success"
            /\ calls[d].op = "deleteWorkout"
            /\ calls[d].status = "success" )
          => \A k \in 1..Len(calls'[q].value[1]) :
               <<calls'[q].value[1][k].id>> # UUIDFromString(calls[d].args.id)]_vars

\* Witness of C2: a workout was saved, deleteWorkout of its id succeeded, and a
\* queryWorkouts issued afterwards over a range containing it returned nothing.
C2_Witness ==
  \E i, d, q \in DOMAIN calls :
    /\ i < d /\ d < q
    /\ DeletesSaved(calls, d, i)
    /\ calls[d].status = "success"
    /\ calls[q].op = "queryWorkouts"
    /\ calls[q].status = "success"
    /\ RangeContains(calls, q, i)
    /\ calls[q].value[1] = <<>>

\* The id of deleteWorkout call c names a workout in the set ws.
NamesStored(c, ws) ==
  /\ UUIDFromString(c.args.id) # <<>>
  /\ \E w \in ws : w.uuid = UUIDFromString(c.args.id)[1]

\* A deleteWorkout call d ends in this step without having found a workout,
\* and the store reported no error to it.
DeleteEndsUnfound(d) ==
  /\ CompletesNow(d)
  /\ calls'[d].op = "deleteWorkout"
  /\ StageBefore(d) # "delete"
  /\ ~NamesStored(calls'[d], workouts)
  /\ \A k \in 1..Len(calls'[d].answers) : calls'[d].answers[k] # "error"

\* C3 as stated: deleteWorkout with any id that names no stored workout, a
\* malformed id such as 'workout-uuid' included, fails with workoutNotFound
\* and leaves the store's records unchanged.
C3_Original ==
  [][\A d \in DOMAIN calls' :
       DeleteEndsUnfound(d)
       => /\ calls'[d].status = "failed"
          /\ calls'[d].error.kind = "workoutNotFound"
          /\ workouts' = workouts]_vars

\* C3 as amended: deleteWorkout with a well-formed id that names no stored
\* workout fails with workoutNotFound; with an id that is no well-formed UUID
\* it fails with missingRequiredData before any store call; the store's
\* records are unchanged in both cases.
C3_DeleteUnknownId ==
  [][\A d \in DOMAIN calls' :
       DeleteEndsUnfound(d)
       => /\ calls'[d].status = "failed"
          /\ IF UUIDFromString(calls'[d].args.id) = <<>>
             THEN /\ calls'[d].error = Err("missingRequiredData", "Invalid workout ID")
                  /\ calls'[d].native = <<>>
             ELSE calls'[d].error.kind = "workoutNotFound"
          /\ workouts' = workouts]_vars

\* Witness of C3: one deleteWorkout failed on the README's placeholder id and
\* another on a well-formed id that was never given out.
C3_Witness ==
  \E d, e \in DOMAIN calls :
    /\ calls[d].op = "deleteWorkout" /\ calls[e].op = "deleteWorkout"
    /\ calls[d].args.id = S_workout_uuid
    /\ calls[d].status = "failed"
    /\ calls[e].args.id = uuidString(15)
    /\ calls[e].status = "failed"
    /\ calls[e].error.kind = "workoutNotFound"

\* The sum of the number under `key` over the records rs.
RECURSIVE FieldSum(_, _)
FieldSum(rs, key) ==
  IF rs = {} THEN Zero
  ELSE LET r == CHOOSE x \in rs : TRUE IN RatAdd(r[key], FieldSum(rs \ {r}, key))

\* The records queryWorkouts returns for the range of call c.
RecordsInRange(c) == { WorkoutDictionary(w) : w \in MatchingWorkouts(c) }

\* C4 as stated: a getTotalDistance / getTotalCalories that completes
\* successfully returns the plain sum of the distance / calories fields of the
\* workout records queryWorkouts returns for the same range.
C4_TotalsSumWorkouts ==
  [][\A a \in DOMAIN calls' :
       ( /\ CompletesNow(a)
         /\ calls'[a].op \in {"getTotalDistance", "getTotalCalories"}
         /\ calls'[a].status = "success" )
       => calls'[a].value[1] =
            FieldSum(RecordsInRange(calls'[a]),
                     IF calls'[a].op = "getTotalDistance" THEN "distance"
                                                          ELSE "calories")]_vars

\* C5 as stated: when the store reports that it is unavailable, every public
\* operation fails with notAvailable and issues no call to the store.
C5_UnavailableNoNativeCall ==
  ~available =>
    \A i \in DOMAIN calls :
      /\ calls[i].native = <<>>
      /\ Completed(calls, i) => /\ calls[i].status = "failed"
                                /\ calls[i].error.kind = "notAvailable"

\* C6 as stated: a write that fails leaves no record of its own in the store,
\* saveBloodPressure with its two samples included.
C6_WritesAllOrNothing ==
  \A i \in DOMAIN calls :
    calls[i].status = "failed" =>
      \A k \in DOMAIN calls[i].objects :
        /\ \A r \in samples : r.uuid # calls[i].objects[k].uuid
        /\ \A w \in workouts : w.uuid # calls[i].objects[k].uuid

\* The store has invoked every callback call c waits for: the results handler,
\* and for a deleteWorkout that found its workout the delete completion too.
CallbacksDone(c) ==
  /\ c.answers # <<>>
  /\ ~(c.op = "deleteWorkout" /\ c.stage = "delete" /\ Len(c.answers) = 1)

\* C7: on every callback path of the query, aggregate and delete operations
\* (store error, results, neither, and for deleteWorkout the outcomes of the
\* nested delete) the continuation is resumed exactly once, with a value or
\* with an error and never both: never twice, and once as soon as the store
\* has called back.
C7_ContinuationResumedOnce ==
  \A i \in DOMAIN calls :
    calls[i].native # <<>> =>
      /\ calls[i].resumes <= 1
      /\ CallbacksDone(calls[i]) => calls[i].resumes = 1
      /\ calls[i].resumes = 0 => calls[i].status = "pending"
      /\ calls[i].resumes = 1 =>
           \/ /\ calls[i].status = "success"
              /\ calls[i].value # <<>>
              /\ calls[i].error = NoError
           \/ /\ calls[i].status = "failed"
              /\ calls[i].value = <<>>
              /\ calls[i].error # NoError

\* Witness of C7: a deleteWorkout found its workout, the store refused the
\* delete without an error, and the continuation was resumed once, throwing.
C7_Witness ==
  \E i \in DOMAIN calls :
    /\ calls[i].op = "deleteWorkout"
    /\ calls[i].answers = <<"results", "refused">>
    /\ calls[i].resumes = 1
    /\ calls[i].status = "failed"

\* C8 as stated: when the store invokes a callback again for a call that has
\* completed, the resume is ignored: the process goes on and the call's
\* outcome stays what it was.
C8_RepeatedCallbackIgnored ==
  [][\A i \in DOMAIN calls :
       ( /\ Completed(calls, i)
         /\ Len(calls'[i].answers) > Len(calls[i].answers) )
       => /\ ~crashed'
          /\ calls'[i].status = calls[i].status
          /\ calls'[i].value = calls[i].value
          /\ calls'[i].error = calls[i].error]_vars

\* C9: parseDataType ignores case and knows the aliases: an identifier resolves
\* to what its lower-case and upper-case spellings resolve to, every value of
\* the public DataType list resolves to a handle, aliases of one data kind
\* resolve to the same handle.
C9_ParseDataType ==
  (probe.fn = "parseDataType" /\ probe.out # <<>>) =>
    LET s == probe.arg[1]
        h == probe.out[1]
    IN /\ h = parseDataType(uppercased(s))
       /\ h = parseDataType(lowerFirst(s))
       /\ \A g \in DataTypeAliases :
            (\E a \in g : uppercased(a) = uppercased(s))
              => /\ h # Nil
                 /\ \A a \in g : parseDataType(a) = h

\* Witness of C9: 'calories', an alias written in lower case, resolved to the
\* handle of 'ActiveEnergyBurned'.
C9_Witness ==
  /\ probe.arg = << <<"c","a","l","o","r","i","e","s">> >>
  /\ probe.out = <<"activeEnergyBurned">>

\* The handles the recognized identifiers of a list resolve to.
Recognized(types) ==
  { parseDataType(types[k]) :
      k \in { j \in DOMAIN types : parseDataType(types[j]) # Nil } }

\* C10: requestAuthorization drops the identifiers it does not recognize
\* without an error: on an available store the request goes to the store with
\* exactly the handles of the recognized identifiers, nothing traps, and the
\* call fails only when the store's request fails.
C10_UnknownTypesDropped ==
  /\ ~crashed
  /\ \A i \in DOMAIN calls :
       (calls[i].op = "requestAuthorization" /\ available) =>
         /\ calls[i].native = <<"requestAuthorization">>
         /\ calls[i].objects =
              <<[toShare |-> Recognized(calls[i].args.writeTypes),
                 read |-> Recognized(calls[i].args.readTypes)]>>
         /\ calls[i].status = "failed" =>
              /\ calls[i].answers = <<"error">>
              /\ calls[i].error.kind = "authorizationFailed"
         /\ calls[i].answers = <<"granted">> => calls[i].status = "success"

\* Witness of C10: a request naming 'Workout', 'bogus' and 'BMI' to read and
\* only 'bogus' to write was granted.
C10_Witness ==
  \E i \in DOMAIN calls :
    /\ calls[i].op = "requestAuthorization"
    /\ calls[i].args.readTypes = <<S_Workout, S_bogus, S_BMI>>
    /\ calls[i].args.writeTypes = <<S_bogus>>
    /\ calls[i].status = "success"
    /\ calls[i].objects[1].read = {"workoutType", "bodyMassIndex"}
    /\ calls[i].objects[1].toShare = {}

\* Save call i stored a body-fat sample that is in the store and ends later
\* than every other body-fat sample there.
MostRecentBodyFat(i) ==
  /\ calls[i].op = "saveBodyFat"
  /\ calls[i].status = "success"
  /\ calls[i].objects[1] \in samples
  /\ \A s \in samples :
       (s.type = "bodyFatPercentage" /\ s # calls[i].objects[1])
         => s.endDate < calls[i].objects[1].endDate

\* The Doubles a round trip may return for a value: those at most this many
\* places from it. A place is at most 2^-52 of the value, so for values below
\* 2^20 this is far inside a tolerance of 1e-6.
ToleranceUlps == 4
WithinTolerance(x, r) ==
  /\ Nominal(x) = r
  /\ 0 - ToleranceUlps <= UlpOf(x)
  /\ UlpOf(x) <= ToleranceUlps

\* C11: body-fat round trip. When getLatestBodyFat completes successfully
\* while the sample of a successful saveBodyFat(p) is the most recent body-fat
\* sample of the store, it returns p within tolerance: the value is stored as
\* p/100 and read back multiplied by 100.
C11_BodyFatRoundTrip ==
  [][\A q \in DOMAIN calls', i \in DOMAIN calls :
       ( /\ CompletesNow(q)
         /\ calls'[q].op = "getLatestBodyFat"
         /\ calls'[q].status = "success"
         /\ MostRecentBodyFat(i) )
       => /\ Len(calls'[q].value[1]) = 1
          /\ WithinTolerance(calls'[q].value[1][1], calls[i].args.value)
          /\ WithinTolerance(calls[i].objects[1].value,
                             Rat(calls[i].args.value.num, calls[i].args.value.den * 100))]_vars

\* Witness of C11: saveBodyFat(7) succeeded and a later getLatestBodyFat
\* returned the Double next above 7 (7.000000000000001), the store holding
\* 0.07.
C11_Witness ==
  \E i, q \in DOMAIN calls :
    /\ i < q
    /\ calls[i].op = "saveBodyFat"
    /\ calls[i].status = "success"
    /\ calls[i].args.value = Rat(7, 1)
    /\ calls[q].op = "getLatestBodyFat"
    /\ calls[q].status = "success"
    /\ calls[q].value[1] = <<[num |-> 7, den |-> 1, ulp |-> 1]>>
    /\ \E s \in samples : s.type = "bodyFatPercentage" /\ s.value = Rat(7, 100)

\* The successful saveWater calls of cs whose timestamp t satisfies
\* startDate <= t < endDate.
WaterSavedIn(cs, startDate, endDate) ==
  { i \in DOMAIN cs : /\ cs[i].op = "saveWater"
                      /\ cs[i].status = "success"
                      /\ startDate <= cs[i].args.date
                      /\ cs[i].args.date < endDate }

\* The sum of the amounts passed to the calls I of cs.
RECURSIVE SumOfAmounts(_, _)
SumOfAmounts(cs, I) ==
  IF I = {} THEN Zero
  ELSE LET i == CHOOSE k \in I : TRUE
       IN RatAdd(cs[i].args.value, SumOfAmounts(cs, I \ {i}))

\* C12: water round trip. In a store whose water samples all come from
\* saveWater, a getWaterIntake(start, end) that completes successfully returns
\* within tolerance the sum, in milliliters, of the amounts of the successful
\* saveWater calls whose timestamp lies in the range, 0 when there is none;
\* each sample holds its amount divided by 1000.
C12_WaterRoundTrip ==
  [][\A q \in DOMAIN calls' :
       ( /\ CompletesNow(q)
         /\ calls'[q].op = "getWaterIntake"
         /\ calls'[q].status = "success" )
       => /\ WithinTolerance(calls'[q].value[1],
               SumOfAmounts(calls, WaterSavedIn(calls, calls'[q].args.startDate,
                                                calls'[q].args.endDate)))
          /\ \A i \in DOMAIN calls :
               (calls[i].op = "saveWater" /\ calls[i].status = "success")
                 => \E s \in samples : /\ s.uuid = calls[i].objects[1].uuid
                                       /\ WithinTolerance(s.value,
                                            Rat(calls[i].args.value.num,
                                                calls[i].args.value.den * 1000))]_vars

\* Witness of C12: saveWater(15.2) at 5000 and saveWater(1003) at 6000
\* succeeded and getWaterIntake from 5500 on returned the Double next below
\* 1003 (1002.9999999999999).
C12_Witness ==
  \E i, j, q \in DOMAIN calls :
    /\ calls[i].op = "saveWater" /\ calls[i].status = "success"
    /\ calls[i].args = [value |-> Rat(152, 10), date |-> 5000]
    /\ calls[j].op = "saveWater" /\ calls[j].status = "success"
    /\ calls[j].args = [value |-> Rat(1003, 1), date |-> 6000]
    /\ calls[q].op = "getWaterIntake"
    /\ calls[q].status = "success"
    /\ calls[q].args.startDate = 5500
    /\ calls[q].value[1] = [num |-> 1003, den |-> 1, ulp |-> -1]

\* The tags of the five-stage scheme.
StageTags == { "core", "deep", "rem" }

\* C13: sleep stage classification. In every result of getSleepSamples, on
\* either system, a sample whose raw value is of the legacy scheme (inBed,
\* asleep, awake) is not tagged core, deep or rem, and a record tagged core,
\* deep or rem comes from the raw value asleepCore, asleepDeep or asleepREM
\* respectively.
C13_SleepStages ==
  \A i \in DOMAIN calls :
    (calls[i].op = "getSleepSamples" /\ calls[i].status = "success") =>
      \A k \in DOMAIN calls[i].value[1] :
        LET r == calls[i].value[1][k] IN
        \A s \in sleepSamples :
          s.uuid = r.id =>
            /\ s.value \in LegacySleepValues => r.value \notin StageTags
            /\ r.value = "core" => s.value = SleepAsleepCore
            /\ r.value = "deep" => s.value = SleepAsleepDeep
            /\ r.value = "rem" => s.value = SleepAsleepREM

\* Witness of C13: on iOS 16 a sample with the legacy raw value asleep was
\* read and reported as "asleep".
C13_Witness ==
  /\ osVersion16
  /\ \E i \in DOMAIN calls :
       /\ calls[i].op = "getSleepSamples"
       /\ calls[i].status = "success"
       /\ \E k \in DOMAIN calls[i].value[1], s \in sleepSamples :
            /\ s.uuid = calls[i].value[1][k].id
            /\ s.value = SleepAsleep
            /\ calls[i].value[1][k].value = "asleep"

\* The records of S whose start time t satisfies start <= t < end for the
\* range of call c; the dates of workouts are times.
StartingInRange(S, c) ==
  IF c.op = "queryWorkouts"
  THEN { r \in S : /\ ~Before(r.startDate, AtSecond(c.args.startDate))
                   /\ Before(r.startDate, AtSecond(c.args.endDate)) }
  ELSE { r \in S : c.args.startDate <= r.startDate /\ r.startDate < c.args.endDate }

\* Of the records x and y of a read op, x ends no later than y.
EndsNoLater(op, x, y) ==
  IF op = "queryWorkouts" THEN ~Before(y.endDate, x.endDate)
  ELSE x.endDate <= y.endDate

\* The ids of the records in the result of call c.
ReturnedIdsOf(c) == { c.value[1][k].id : k \in DOMAIN c.value[1] }

\* The stored records a read of call c draws from.
ReadFrom(c) ==
  CASE c.op = "queryWorkouts" -> workouts
    [] c.op = "getSleepSamples" -> sleepSamples
    [] c.op \in SampleReads -> { s \in samples : s.type = SamplesType(c.op) }
    [] OTHER -> { s \in samples : s.type = StatisticsType(c.op) }

\* C14: range semantics. A read over (start, end) without a limit that
\* completes successfully returns a stored record if and only if its start
\* time t satisfies start <= t < end, whatever its end time: queryWorkouts and
\* the sample queries return exactly those records, and a sum aggregate
\* returns the sum of exactly those samples.
C14_RangeSemantics ==
  [][\A q \in DOMAIN calls' :
       (CompletesNow(q) /\ calls'[q].status = "success") =>
         LET c == calls'[q] IN
         /\ (c.op \in {"queryWorkouts", "getSleepSamples"} \cup SampleReads)
              => ReturnedIdsOf(c) = { r.uuid : r \in StartingInRange(ReadFrom(c), c) }
         /\ c.op \in SumReads
              => c.value[1] = SumOfQuantities(StartingInRange(ReadFrom(c), c))]_vars

\* Witness of C14: with a workout that starts inside the range and ends after
\* it and one that starts before the range and ends inside it in the store, a
\* queryWorkouts returned the former alone.
C14_Witness ==
  \E q \in DOMAIN calls :
    /\ calls[q].op = "queryWorkouts"
    /\ calls[q].status = "success"
    /\ \E w, x \in workouts :
         /\ w.startDate = AtSecond(5999) /\ w.endDate = AtSecond(7000)
         /\ x.startDate = AtSecond(4000) /\ x.endDate = AtSecond(5500)
         /\ ReturnedIdsOf(calls[q]) = {w.uuid}

\* The number of records a read with the optional limit may return out of n
\* matching ones.
Capped(n, limit) ==
  IF limit = <<>> \/ limit[1] = HKObjectQueryNoLimit \/ limit[1] >= n THEN n ELSE limit[1]

\* C15: limit semantics. A queryWorkouts, getHeartRateSamples or
\* getOxygenSaturation that completes successfully returns matching records
\* only, each once; with limit n > 0 it returns n of them (all when fewer
\* match) and no record left out ends later than a returned one; with the
\* limit absent it returns every matching record.
C15_LimitSemantics ==
  [][\A q \in DOMAIN calls' :
       ( /\ CompletesNow(q)
         /\ calls'[q].status = "success"
         /\ calls'[q].op \in {"queryWorkouts"} \cup SampleReads )
       => LET c == calls'[q]
              matching == StartingInRange(ReadFrom(c), c)
          IN /\ ReturnedIdsOf(c) \subseteq { m.uuid : m \in matching }
             /\ Cardinality(ReturnedIdsOf(c)) = Len(c.value[1])
             /\ Len(c.value[1]) = Capped(Cardinality(matching), c.args.limit)
             /\ \A m \in matching, k \in DOMAIN c.value[1] :
                  m.uuid \notin ReturnedIdsOf(c)
                    => EndsNoLater(c.op, m, c.value[1][k])]_vars

\* Witness of C15: with two heart-rate samples stored, getHeartRateSamples
\* with limit 1 returned the later one alone.
C15_Witness ==
  \E q \in DOMAIN calls :
    /\ calls[q].op = "getHeartRateSamples"
    /\ calls[q].status = "success"
    /\ calls[q].args.limit = <<1>>
    /\ Len(calls[q].value[1]) = 1
    /\ calls[q].value[1][1].endDate = 5500
    /\ Cardinality({ s \in samples : s.type = "heartRate" }) = 2

\* C16: every successful result of queryWorkouts is sorted by end time
\* descending: of two consecutive records the first one's endDate is greater
\* than or equal to the second one's.
C16_SortedByEndDate ==
  \A q \in DOMAIN calls :
    (calls[q].op = "queryWorkouts" /\ calls[q].status = "success") =>
      \A k \in 1..(Len(calls[q].value[1]) - 1) :
        ~Before(calls[q].value[1][k].endDate, calls[q].value[1][k + 1].endDate)

\* Witness of C16: a queryWorkouts returned the workout ending at 13600.5 before
\* the one ending at 7200, which was saved first.
C16_Witness ==
  \E q \in DOMAIN calls :
    /\ calls[q].op = "queryWorkouts"
    /\ calls[q].status = "success"
    /\ Len(calls[q].value[1]) = 2
    /\ calls[q].value[1][1].endDate = Mixed(13600, 1, 2)
    /\ calls[q].value[1][2].endDate = AtSecond(7200)
    /\ calls[q].value[1][2].id = uuidString(0)

\* The kinds of HealthKitError.
Taxonomy ==
  { "notAvailable", "authorizationFailed", "saveFailed", "queryFailed",
    "missingRequiredData", "workoutNotFound" }

\* The store reported a failure to call c.
StoreFailed(c) == \E k \in DOMAIN c.answers : c.answers[k] \in {"error", "refused"}

\* The kinds of error a failure of the store may reach the caller of c as.
FailureKinds(c) ==
  CASE c.op = "requestAuthorization" -> {"authorizationFailed"}
    [] c.op \in {"saveWorkout", "saveBloodPressure"} \cup ConvenienceSaves -> {"saveFailed"}
    [] c.op = "deleteWorkout" ->
         IF c.stage = "lookup" THEN {"queryFailed"} ELSE Taxonomy
    [] OTHER -> {"queryFailed"}

\* C17: every failure the store reports reaches the caller as one error of
\* the taxonomy, of the kind matching the operation: authorizationFailed for
\* requestAuthorization, saveFailed for a save, queryFailed for a query, an
\* aggregate or the lookup of deleteWorkout; it carries the store's
\* description, and no failed call holds an error outside the taxonomy.
C17_StoreFailuresWrapped ==
  \A i \in DOMAIN calls :
    /\ calls[i].status = "failed" => calls[i].error.kind \in Taxonomy
    /\ StoreFailed(calls[i]) =>
         /\ calls[i].status = "failed"
         /\ calls[i].value = <<>>
         /\ calls[i].error.kind \in FailureKinds(calls[i])
         /\ "error" \in { calls[i].answers[k] : k \in DOMAIN calls[i].answers }
              => calls[i].error.detail = StoreErrorText

\* Witness of C17: the store accepted the systolic sample of a
\* saveBloodPressure and failed the diastolic one; the call ended with
\* saveFailed around the store's description.
C17_Witness ==
  \E i \in DOMAIN calls :
    /\ calls[i].op = "saveBloodPressure"
    /\ calls[i].answers = <<"saved", "error">>
    /\ calls[i].error = Err("saveFailed", StoreErrorText)

\* The input of saveWorkout call c lacks a required field or holds something
\* that is no number there.
LacksRequiredField(c) ==
  \E k \in RequiredWorkoutFields :
    k \notin DOMAIN c.args \/ c.args[k].t \notin {"num", "real"}

\* C18: a saveWorkout whose input lacks any of startDate, endDate, duration,
\* distance or calories, or holds a non-number there, fails with
\* missingRequiredData, issues no save to the store and leaves the store
\* unchanged.
C18_MissingRequiredData ==
  [][\A i \in DOMAIN calls' :
       ( /\ i \notin DOMAIN calls
         /\ calls'[i].op = "saveWorkout"
         /\ LacksRequiredField(calls'[i]) )
       => /\ calls'[i].status = "failed"
          /\ calls'[i].error.kind = "missingRequiredData"
          /\ calls'[i].native = <<>>
          /\ calls'[i].objects = <<>>
          /\ workouts' = workouts
          /\ samples' = samples]_vars

\* Witness of C18: saveWorkout failed on an input without its calories and
\* on one whose distance is a string, and no workout is stored.
C18_Witness ==
  /\ workouts = {}
  /\ \E i, j \in DOMAIN calls :
       /\ calls[i].args = WithoutField("calories")
       /\ calls[i].status = "failed"
       /\ calls[j].op = "saveWorkout"
       /\ "distance" \in DOMAIN calls[j].args
       /\ calls[j].args.distance.t = "str"
       /\ calls[j].status = "failed"

\* The native activity kinds that have a name in formatActivityType.
NamedKinds ==
  { "running", "walking", "cycling", "swimming", "hiking", "yoga",
    "functionalStrengthTraining", "traditionalStrengthTraining", "elliptical",
    "rowing" }

\* The recognized names that the activity type of save call c is, letter
\* case aside; none when it has no activity type.
NamedBy(c) ==
  LET given == asString(c.args, "activityType") IN
  IF given = <<>> THEN {}
  ELSE { r \in RecognizedActivityTypes :
           /\ Len(r) = Len(given[1])
           /\ \A n \in 1..Len(r) : upperChar(r[n]) = upperChar(given[1][n]) }

\* C19: saveWorkout never fails because of its activityType. A saveWorkout
\* with its required fields fails only when the store fails the save; the
\* workout it builds is running when activityType is absent, the kind named
\* when it is a recognized name in any letter case, and other for any other
\* string; and queryWorkouts reports a stored workout whose native kind has
\* no name as "other".
C19_ActivityTypeDefaults ==
  [][/\ \A i \in DOMAIN calls' :
          ( /\ CompletesNow(i)
            /\ calls'[i].op = "saveWorkout"
            /\ ~LacksRequiredField(calls'[i]) ) =>
            LET c == calls'[i]
                kind == c.objects[1].workoutActivityType
                named == NamedBy(c)
            IN /\ c.error.kind \in {"none", "saveFailed"}
               /\ c.status = "failed" => c.answers = <<"error">>
               /\ c.native = <<"save">>
               /\ "activityType" \notin DOMAIN c.args => kind = "running"
               /\ named # {} => named = { formatActivityType(kind) }
               /\ ("activityType" \in DOMAIN c.args /\ named = {})
                  => kind = "other"
     /\ \A q \in DOMAIN calls' :
          ( /\ CompletesNow(q)
            /\ calls'[q].op = "queryWorkouts"
            /\ calls'[q].status = "success" ) =>
            \A k \in DOMAIN calls'[q].value[1], w \in workouts' :
              ( /\ w.uuid = calls'[q].value[1][k].id
                /\ w.workoutActivityType \notin NamedKinds )
                => calls'[q].value[1][k].activityType = <<"o","t","h","e","r">>]_vars

\* Witness of C19: a saveWorkout with the activity type 'zumba' succeeded,
\* its workout is stored as other, and a queryWorkouts reported another
\* writer's dance workout as "other".
C19_Witness ==
  /\ \E i \in DOMAIN calls :
       /\ calls[i].op = "saveWorkout"
       /\ calls[i].status = "success"
       /\ asString(calls[i].args, "activityType") = << <<"z","u","m","b","a">> >>
       /\ \E w \in workouts : /\ w.uuid = calls[i].value[1]
                              /\ w.workoutActivityType = "other"
  /\ \E q \in DOMAIN calls, w \in workouts :
       /\ calls[q].op = "queryWorkouts"
       /\ calls[q].status = "success"
       /\ w.workoutActivityType = "dance"
       /\ \E k \in DOMAIN calls[q].value[1] :
            /\ calls[q].value[1][k].id = w.uuid
            /\ calls[q].value[1][k].activityType = <<"o","t","h","e","r">>

\* C20 as stated: a workout saved with an activity type that the README or
\* the ActivityType type lists as supported is returned by queryWorkouts with
\* the same activityType string.
C20_ActivityRoundTrip ==
  \A i, q \in DOMAIN calls :
    ( /\ calls[i].op = "saveWorkout"
      /\ calls[i].status = "success"
      /\ asString(calls[i].args, "activityType") # <<>>
      /\ asString(calls[i].args, "activityType")[1] \in SupportedActivityTypes
      /\ calls[q].op = "queryWorkouts"
      /\ calls[q].status = "success" )
    => \A k \in DOMAIN calls[q].value[1] :
         calls[q].value[1][k].id = calls[i].value[1]
           => calls[q].value[1][k].activityType = calls[i].args.activityType.v

\* The stored samples of the kind the latest-value read c asks for.
OfKind(S, c) == { x \in S : x.type = LatestType(c.op) }

\* C21 as stated: getRestingHeartRate(startDate, endDate) returns the value
\* of a resting-heart-rate sample that lies within the range, and null when
\* no resting-heart-rate sample lies within it.
C21_RestingHeartRateInRange ==
  [][\A i \in DOMAIN calls' :
       ( /\ CompletesNow(i)
         /\ calls'[i].op = "getRestingHeartRate"
         /\ calls'[i].status = "success" ) =>
         LET c == calls'[i]
             inRange == { x \in OfKind(samples, c) :
                            /\ c.args.range[1] <= x.startDate
                            /\ x.startDate < c.args.range[2] }
         IN IF inRange = {} THEN c.value[1] = <<>>
            ELSE \E x \in inRange : c.value[1] = <<x.value>>]_vars

\* What a latest-value read reports for the stored sample x: body fat is
\* stored as a fraction and reported as a percentage.
Reported(op, x, value) ==
  IF op = "getLatestBodyFat"
  THEN WithinTolerance(value, Rat(x.value.num * 100, x.value.den))
  ELSE value = x.value

\* C22: a getLatest operation (height, weight, BMI, body fat, heart rate)
\* fails only when the store reports an error; otherwise it returns the value
\* of a stored sample of its kind with the greatest end time over all time,
\* and null when the store holds no sample of that kind.
C22_LatestOverAllTime ==
  [][\A i \in DOMAIN calls' :
       ( /\ CompletesNow(i)
         /\ calls'[i].op \in LatestReads \ {"getRestingHeartRate"} ) =>
         LET c == calls'[i]
             S == OfKind(samples, c)
         IN IF c.answers = <<"error">>
            THEN c.status = "failed" /\ c.error.kind = "queryFailed"
            ELSE /\ c.status = "success"
                 /\ IF S = {} THEN c.value[1] = <<>>
                    ELSE \E x \in S :
                           /\ \A y \in S : y.endDate <= x.endDate
                           /\ Len(c.value[1]) = 1
                           /\ Reported(c.op, x, c.value[1][1])]_vars

\* Witness of C22: with an earlier and a later body-fat sample stored,
\* getLatestBodyFat returned the later one as a percentage.
C22_Witness ==
  \E i \in DOMAIN calls :
    /\ calls[i].op = "getLatestBodyFat"
    /\ calls[i].status = "success"
    /\ calls[i].value[1] = <<Rat(30, 1)>>
    /\ Cardinality({ x \in samples : x.type = "bodyFatPercentage" }) = 2

\* C23: no caching. A queryWorkouts that succeeds returns exactly the
\* dictionaries of the workouts that are in the store and in its range when
\* the store answers it, after any saves, deletes and writes of other
\* writers: no record removed earlier, and every record added earlier.
C23_NoCaching ==
  [][\A q \in DOMAIN calls' :
       ( /\ CompletesNow(q)
         /\ calls'[q].op = "queryWorkouts"
         /\ calls'[q].status = "success" ) =>
         LET c == calls'[q]
             returned == { c.value[1][k] : k \in DOMAIN c.value[1] }
         IN /\ returned = { WorkoutDictionary(w) : w \in StartingInRange(workouts, c) }
            /\ Len(c.value[1]) = Cardinality(StartingInRange(workouts, c))]_vars

\* Witness of C23: a deleteWorkout of a stored workout's id succeeded, another
\* workout is still stored, and a later query over everything succeeded and
\* returned the one still stored only.
C23_Witness ==
  \E d, q \in DOMAIN calls :
    /\ d < q
    /\ calls[d].op = "deleteWorkout" /\ calls[d].status = "success"
    /\ calls[q].op = "queryWorkouts" /\ calls[q].status = "success"
    /\ calls[q].args.startDate = WholeRange[1]
    /\ workouts # {}
    /\ ReturnedIdsOf(calls[q]) = { w.uuid : w \in workouts }
    /\ calls[d].args.id \notin ReturnedIdsOf(calls[q])

\* The step is one of deleteWorkout call i: the call is entered or changes.
DeleteSteps(i) ==
  /\ i \in DOMAIN calls'
  /\ calls'[i].op = "deleteWorkout"
  /\ (i \notin DOMAIN calls \/ calls[i] # calls'[i])

\* C28: deleteWorkout is a lookup followed by a delete. When the lookup
\* errors the call fails with queryFailed and no delete is issued; when the
\* lookup found the record and the delete step reports an error or
\* success = false, the call fails with saveFailed, never with
\* workoutNotFound and never with success.
C28_LookupThenDelete ==
  [][\A i \in DOMAIN calls' :
       (CompletesNow(i) /\ calls'[i].op = "deleteWorkout") =>
         LET c == calls'[i] IN
         /\ c.answers = <<"error">> =>
              /\ c.status = "failed"
              /\ c.error.kind = "queryFailed"
              /\ "delete" \notin { c.native[k] : k \in DOMAIN c.native }
         /\ ( /\ Len(c.answers) = 2
              /\ c.answers[1] = "results"
              /\ c.answers[2] \in {"error", "refused"} ) =>
              /\ c.status = "failed"
              /\ c.error.kind = "saveFailed"]_vars

\* Witness of C28: two deleteWorkout calls of the same id both found the
\* record; the first to be answered succeeded and the other failed with
\* saveFailed because the record was gone.
C28_Witness ==
  \E i, j \in DOMAIN calls :
    /\ i # j
    /\ calls[i].op = "deleteWorkout" /\ calls[j].op = "deleteWorkout"
    /\ calls[i].args.id = calls[j].args.id
    /\ calls[i].status = "success"
    /\ calls[j].status = "failed"
    /\ calls[j].error.kind = "saveFailed"
    /\ calls[j].native = <<"execute", "delete">>
    /\ workouts = {}

\* C29: frame of deleteWorkout. A deleteWorkout that succeeds removes, in the
\* step that completes it, exactly the one workout whose id it was given; no
\* other step of a deleteWorkout, and no deleteWorkout that fails, changes
\* the store.
C29_DeleteFrame ==
  [][\A i \in DOMAIN calls' :
       DeleteSteps(i) =>
         /\ samples' = samples /\ sleepSamples' = sleepSamples
         /\ IF CompletesNow(i) /\ calls'[i].status = "success"
            THEN /\ \E w \in workouts :
                      /\ w.uuid = calls'[i].args.id
                      /\ workouts' = workouts \ {w}
                 /\ Cardinality(workouts') = Cardinality(workouts) - 1
            ELSE workouts' = workouts]_vars

\* Witness of C29: a deleteWorkout succeeded while two workouts were stored,
\* the one saved by this manager and one of another writer, and the one it
\* did not name is still in the store.
C29_Witness ==
  \E i \in DOMAIN calls :
    /\ calls[i].op = "deleteWorkout"
    /\ calls[i].status = "success"
    /\ \E j \in DOMAIN calls :
         /\ j < i
         /\ calls[j].op = "saveWorkout" /\ calls[j].status = "success"
    /\ Cardinality(workouts) = 1
    /\ \A w \in workouts : w.uuid # calls[i].args.id

\* The bound a queryWorkouts with the options opt queries with: a number as
\* it is, a Date as its epoch seconds, the default when the bound is absent.
BoundOf(opt, key, default) ==
  IF key \notin DOMAIN opt THEN Whole(default)
  ELSE IF opt[key].t = "date" THEN Rat(opt[key].ms, 1000)
  ELSE Whole(opt[key].v)

\* C30: a queryWorkouts without startDate queries from epoch 0 and one
\* without endDate up to the time of the call; a Date bound is converted to
\* epoch seconds and a number is passed through: these are the numbers the
\* module function is given, and the workouts returned are those that start
\* in the range between the Dates it makes of them; so a call with no options
\* that succeeds returns every stored workout that starts before the time of
\* the call.
C30_QueryDefaults ==
  [][\A q \in DOMAIN calls' :
       (calls'[q].op = "queryWorkouts" /\ "options" \in DOMAIN calls'[q].args) =>
         LET c == calls'[q] IN
         /\ q \notin DOMAIN calls =>
              /\ c.args.startDate = BoundOf(c.args.options, "startDate", 0)
              /\ c.args.endDate = BoundOf(c.args.options, "endDate", c.args.now)
         /\ (CompletesNow(q) /\ c.status = "success" /\ c.args.limit = <<>>) =>
              ReturnedIdsOf(c) =
                { w.uuid : w \in
                    { x \in workouts :
                        LET from == BoundOf(c.args.options, "startDate", 0)
                            to == BoundOf(c.args.options, "endDate", c.args.now)
                        IN /\ ~Before(x.startDate, DateSince1970(from))
                           /\ Before(x.startDate, DateSince1970(to)) } }
         /\ (CompletesNow(q) /\ c.status = "success" /\ c.args.options = <<>>) =>
              ReturnedIdsOf(c) =
                { x.uuid : x \in { w \in workouts :
                                     Before(w.startDate, AtSecond(c.args.now)) } }]_vars

\* Witness of C30: a queryWorkouts with no options, called at 8000, returned
\* a stored workout that starts before 8000 and none that starts later, while
\* a workout that starts at 9000 is stored as well.
C30_Witness ==
  \E q \in DOMAIN calls :
    /\ calls[q].op = "queryWorkouts"
    /\ "options" \in DOMAIN calls[q].args
    /\ calls[q].args.options = <<>>
    /\ calls[q].args.now = 8000
    /\ calls[q].status = "success"
    /\ \E x \in workouts : x.startDate = AtSecond(9000)
    /\ \E x \in workouts : /\ Before(x.startDate, AtSecond(8000))
                           /\ x.uuid \in ReturnedIdsOf(calls[q])
    /\ \A k \in DOMAIN calls[q].value[1] :
         Before(calls[q].value[1][k].startDate, AtSecond(8000))

\* A second state of C30: a queryWorkouts whose startDate is the Date at
\* 200002 ms was handed 200.002 and returned the workout that starts at the
\* time a Date makes of 200.002, which is before 200.002 itself, and not the
\* workout that starts at 200.
C30_DateBound ==
  \E q \in DOMAIN calls :
    /\ calls[q].op = "queryWorkouts"
    /\ "options" \in DOMAIN calls[q].args
    /\ "startDate" \in DOMAIN calls[q].args.options
    /\ calls[q].args.options.startDate = [t |-> "date", ms |-> 200002]
    /\ calls[q].args.startDate = Rat(200002, 1000)
    /\ calls[q].status = "success"
    /\ \E x, y \in workouts :
         /\ x.startDate = DateSince1970(Rat(200002, 1000))
         /\ Before(x.startDate, Exactly(Rat(200002, 1000)))
         /\ x.uuid \in ReturnedIdsOf(calls[q])
         /\ y.startDate = AtSecond(200)
         /\ y.uuid \notin ReturnedIdsOf(calls[q])

\* C27: a stored workout without a total distance is returned by
\* queryWorkouts with distance 0, and one without a total energy with
\* calories 0; both fields are always present and numbers.
C27_AbsentTotalsAreZero ==
  [][\A q \in DOMAIN calls' :
       ( /\ CompletesNow(q)
         /\ calls'[q].op = "queryWorkouts"
         /\ calls'[q].status = "success" ) =>
         \A k \in DOMAIN calls'[q].value[1] :
           LET r == calls'[q].value[1][k] IN
           /\ {"distance", "calories"} \subseteq DOMAIN r
           /\ r.distance \in [num : Nat, den : Nat \ {0}]
           /\ r.calories \in [num : Nat, den : Nat \ {0}]
           /\ \A w \in workouts :
                w.uuid = r.id =>
                  /\ w.totalDistance = <<>> => r.distance = Zero
                  /\ w.totalEnergyBurned = <<>> => r.calories = Zero
                  /\ w.totalDistance # <<>> => r.distance = w.totalDistance[1]
                  /\ w.totalEnergyBurned # <<>> => r.calories = w.totalEnergyBurned[1]]_vars

\* Witness of C27: a queryWorkouts returned a workout stored without a total
\* energy, with its distance and with calories 0.
C27_Witness ==
  \E q \in DOMAIN calls :
    /\ calls[q].op = "queryWorkouts"
    /\ calls[q].status = "success"
    /\ \E k \in DOMAIN calls[q].value[1], w \in workouts :
         /\ w.uuid = calls[q].value[1][k].id
         /\ w.totalEnergyBurned = <<>>
         /\ w.totalDistance = <<Whole(3000)>>
         /\ calls[q].value[1][k].calories = Zero
         /\ calls[q].value[1][k].distance = Whole(3000)

\* Calls i and j are two saveWorkout calls with equal inputs.
SameSaves(cs, i, j) ==
  /\ i # j
  /\ i \in DOMAIN cs /\ j \in DOMAIN cs
  /\ cs[i].op = "saveWorkout" /\ cs[j].op = "saveWorkout"
  /\ cs[i].args = cs[j].args

\* C24: no deduplication. Of two saveWorkout calls with equal inputs, each
\* succeeds whenever the store accepts its save; when both succeeded they
\* returned two distinct ids and two distinct records are stored; and a
\* query over their range answered after both returns both ids.
C24_NoDeduplication ==
  [][\A i, j \in DOMAIN calls' :
       SameSaves(calls', i, j) =>
         /\ \A k \in {i, j} :
              calls'[k].answers = <<"saved">> => calls'[k].status = "success"
         /\ (calls'[i].status = "success" /\ calls'[j].status = "success") =>
              /\ calls'[i].value[1] # calls'[j].value[1]
              /\ \E w, x \in workouts' :
                   /\ w # x
                   /\ w.uuid = calls'[i].value[1]
                   /\ x.uuid = calls'[j].value[1]
              /\ \A q \in DOMAIN calls' :
                   ( /\ CompletesNow(q)
                     /\ calls'[q].op = "queryWorkouts"
                     /\ calls'[q].status = "success"
                     /\ RangeContains(calls', q, i) )
                   => {calls'[i].value[1], calls'[j].value[1]}
                        \subseteq ReturnedIdsOf(calls'[q])]_vars

\* Witness of C24: two saveWorkout calls with equal inputs both succeeded,
\* two workouts are stored and a query returned two records.
C24_Witness ==
  \E i, j, q \in DOMAIN calls :
    /\ SameSaves(calls, i, j)
    /\ calls[i].status = "success" /\ calls[j].status = "success"
    /\ calls[q].op = "queryWorkouts" /\ calls[q].status = "success"
    /\ Len(calls[q].value[1]) = 2
    /\ Cardinality(workouts) = 2

\* C25: independence of concurrent calls. A step changes at most one call,
\* and a read that completes while others are in flight gets the outcome of
\* its own request: the failure the store reported to it, or what the store
\* holds for its own kind and range when it is answered.
C25_ConcurrentCallsIndependent ==
  [][\A i \in DOMAIN calls' :
       /\ (i \in DOMAIN calls /\ calls'[i] # calls[i]) =>
            \A j \in DOMAIN calls : j # i => calls'[j] = calls[j]
       /\ (i \notin DOMAIN calls) => \A j \in DOMAIN calls : calls'[j] = calls[j]
       /\ (CompletesNow(i) /\ calls'[i].op \in SampleReads \cup Aggregates) =>
            LET c == calls'[i]
                own == StartingInRange(ReadFrom(c), c)
            IN IF c.answers = <<"error">>
               THEN c.status = "failed" /\ c.error.kind = "queryFailed"
               ELSE /\ c.status = "success"
                    /\ IF c.op \in SampleReads
                       THEN ReturnedIdsOf(c) = { x.uuid : x \in own }
                       ELSE c.value[1] = IF own = {} THEN Zero
                                         ELSE SumOfQuantities(own)]_vars

\* Witness of C25: two getHeartRateSamples calls over different ranges were
\* in flight together; the one entered later was answered first and returned
\* the sample of its own range, which the range of the other, still pending,
\* does not hold.
C25_Witness ==
  \E i, j \in DOMAIN calls :
    /\ i < j
    /\ calls[i].op = "getHeartRateSamples" /\ calls[j].op = "getHeartRateSamples"
    /\ calls[i].status = "pending"
    /\ calls[j].status = "success"
    /\ calls[i].args # calls[j].args
    /\ Len(calls[j].value[1]) = 1
    /\ ~ (calls[i].args.startDate <= calls[j].value[1][1].startDate
          /\ calls[j].value[1][1].startDate < calls[i].args.endDate)
    /\ \E x \in samples : /\ x.type = "heartRate"
                          /\ calls[i].args.startDate <= x.startDate
                          /\ x.startDate < calls[i].args.endDate

\* The status of the i-th operation, "none" before it is entered.
StatusOf(i) == IF i \in DOMAIN calls THEN calls[i].status ELSE "none"

\* C26: no timeout and no cancellation. An operation that issued a request to
\* the store is pending when it is entered, and a pending operation changes
\* only in a step in which the store calls it back, so one that is never
\* called back stays pending forever; and when the store calls back for
\* every request, every pending operation eventually reaches success or
\* failed.
C26_TerminatesByCallbackOnly ==
  /\ [][\A i \in DOMAIN calls' :
          /\ (i \notin DOMAIN calls /\ calls'[i].native # <<>>) =>
               calls'[i].status = "pending"
          /\ (i \in DOMAIN calls /\ calls'[i] # calls[i]) =>
               /\ calls[i].status = "pending"
               /\ Len(calls'[i].answers) = Len(calls[i].answers) + 1]_vars
  /\ \A i \in 1..MaxCalls :
       (StatusOf(i) = "pending") ~> (StatusOf(i) \in {"success", "failed"})

\* Witness of C26: a deleteWorkout reached success through its two callbacks
\* and a getTotalDistance reached a terminal state through its one.
C26_Witness ==
  \E i, j \in DOMAIN calls :
    /\ calls[i].op = "deleteWorkout"
    /\ calls[i].status = "success"
    /\ calls[i].answers = <<"results", "deleted">>
    /\ calls[j].op = "getTotalDistance"
    /\ calls[j].status \in {"success", "failed"}
    /\ Len(calls[j].answers) = 1

====
